---- MODULE Spec2Model ----
(***************************************************************************)
(* A model of the hybrid answering pipeline of app.py: the chunker, the    *)
(* token-budgeted retrieval, the retry/backoff decorator, the structured   *)
(* extraction and the two request handlers that route a question, with the *)
(* generation client of groq_api.py.                                       *)
(*                                                                         *)
(* Python strings are sequences of one-character strings, so that          *)
(* str.split, str.lower, the `in` substring test, slicing and len are      *)
(* computed as Python computes them.                                       *)
(***************************************************************************)
EXTENDS Integers, Sequences, FiniteSets, TLC

VARIABLES split, retr, retry, router, disk, analyzer, ingest, front, perplexity, finder

vars == <<split, retr, retry, router, disk, analyzer, ingest, front, perplexity, finder>>

(***************************************************************************)
(* Bounds of the model.                                                    *)
(***************************************************************************)
MaxTextLen == 5
MaxChunkSize == 3
MaxChunks == 3
MaxChunkLen == 8
MaxTopK == 3
MaxBudget == 2
MaxRetriesBound == 4
MaxBaseDelay == 2

(***************************************************************************)
(* Python string primitives.                                               *)
(***************************************************************************)
Min(a, b) == IF a <= b THEN a ELSE b

\* str.isspace for the characters of the model's alphabet
IsSpace(c) == c \in {" ", "\n", "\t"}

\* s[:n] for n >= 0
Prefix(s, n) == SubSeq(s, 1, Min(n, Len(s)))

\* the first position from i on whose character is (or, is not) whitespace;
\* Len(text) + 1 when there is none
NextAt(text, i, space) ==
    LET here == {j \in i..Len(text) : IsSpace(text[j]) = space}
    IN  IF here = {} THEN Len(text) + 1
        ELSE CHOOSE j \in here : \A k \in here : j <= k

RECURSIVE SplitFrom(_, _, _)
\* the words of text from position i on, after those already found: the
\* next word runs from the first non-whitespace character to the character
\* before the next whitespace
SplitFrom(text, i, words) ==
    IF NextAt(text, i, FALSE) > Len(text) THEN words
    ELSE SplitFrom(text, NextAt(text, NextAt(text, i, FALSE), TRUE),
                   Append(words, SubSeq(text, NextAt(text, i, FALSE),
                                        NextAt(text, NextAt(text, i, FALSE), TRUE) - 1)))

\* text.split(): the maximal runs of non-whitespace characters, in order
StrSplit(text) == SplitFrom(text, 1, <<>>)

RECURSIVE StrJoin(_, _)
\* sep.join(parts)
StrJoin(sep, parts) ==
    IF parts = <<>> THEN <<>>
    ELSE IF Len(parts) = 1 THEN parts[1]
    ELSE parts[1] \o sep \o StrJoin(sep, Tail(parts))

\* needle in haystack
Contains(haystack, needle) ==
    \E i \in 1..(Len(haystack) - Len(needle) + 1) :
        SubSeq(haystack, i, i + Len(needle) - 1) = needle

RangeStep_floor(n, step) == [k \in 1..(n \div step) |-> (k - 1) * step]

\* range(0, n, step) as a sequence
RangeStep(n, step) ==
    [k \in 1..((n + step - 1) \div step) |-> (k - 1) * step]

\* words[i:j] with 0 <= i <= j (0-based, end exclusive, clipped to the length)
Slice(s, i, j) == SubSeq(s, i + 1, Min(j, Len(s)))

(***************************************************************************)
(* split_document                                                          *)
(***************************************************************************)
split_document_overlap(text, chunk_size) ==
    LET words == StrSplit(text)
        starts == RangeStep(Len(words), chunk_size)
    IN  [k \in 1..Len(starts) |->
            StrJoin(<<" ">>, Slice(words, starts[k], starts[k] + chunk_size + 1))]

split_document(text, chunk_size) ==
    LET words == StrSplit(text)
        starts == RangeStep(Len(words), chunk_size)
    IN  [k \in 1..Len(starts) |->
            StrJoin(<<" ">>, Slice(words, starts[k], starts[k] + chunk_size))]

(***************************************************************************)
(* estimate_tokens, the persisted index and retrieve_relevant_chunks       *)
(***************************************************************************)
estimate_tokens(text) == Len(text) \div 4

\* chunks[idx] of Python: a negative idx counts from the end of the list
PyIndex(s, idx) == IF idx >= 0 THEN s[idx + 1] ELSE s[Len(s) + idx + 1]

\* index.search(query_embedding, top_k): top_k labels, the min(top_k, ntotal)
\* nearest rows first (their order is decided by the embedding model, which
\* is outside the repository), the missing ones reported as -1
IndexSearch(ntotal, top_k) ==
    LET found == Min(top_k, ntotal)
    IN  { [p \in 1..top_k |-> IF p <= found THEN f[p] ELSE -1] :
            f \in { g \in [1..found -> 0..(ntotal - 1)] :
                        \A a, b \in 1..found : a # b => g[a] # g[b] } }

RECURSIVE AccumulateChunks_skips_exceeding(_, _, _, _, _, _)
\* the loop with the exceeding chunk skipped and the loop going on
AccumulateChunks_skips_exceeding(indices, pos, chunks, max_tokens, relevant_chunks, total_tokens) ==
    IF pos > Len(indices) THEN relevant_chunks
    ELSE IF /\ indices[pos] < Len(chunks)
            /\ total_tokens + estimate_tokens(PyIndex(chunks, indices[pos])) <= max_tokens
    THEN AccumulateChunks_skips_exceeding(
             indices, pos + 1, chunks, max_tokens,
             Append(relevant_chunks, PyIndex(chunks, indices[pos])),
             total_tokens + estimate_tokens(PyIndex(chunks, indices[pos])))
    ELSE AccumulateChunks_skips_exceeding(indices, pos + 1, chunks, max_tokens,
                                          relevant_chunks, total_tokens)

RECURSIVE AccumulateChunks(_, _, _, _, _, _)
\* the loop of lines 198-213 from position pos of indices[0] on
AccumulateChunks(indices, pos, chunks, max_tokens, relevant_chunks, total_tokens) ==
    IF pos > Len(indices) THEN relevant_chunks
    ELSE IF indices[pos] < Len(chunks)
    THEN LET chunk == PyIndex(chunks, indices[pos])
             chunk_tokens == estimate_tokens(chunk)
         IN  IF total_tokens + chunk_tokens <= max_tokens
             THEN AccumulateChunks(indices, pos + 1, chunks, max_tokens,
                                   Append(relevant_chunks, chunk),
                                   total_tokens + chunk_tokens)
             ELSE LET remaining_tokens == max_tokens - total_tokens
                      chars_to_keep == remaining_tokens * 4
                      truncated_chunk == Prefix(chunk, chars_to_keep)
                  IN  IF truncated_chunk # <<>>
                      THEN Append(relevant_chunks, truncated_chunk)
                      ELSE relevant_chunks
    ELSE AccumulateChunks(indices, pos + 1, chunks, max_tokens,
                          relevant_chunks, total_tokens)

(***************************************************************************)
(* retry_with_backoff                                                      *)
(* Durations are in tenths of a second, so that 2.5 s is the integer 25.   *)
(***************************************************************************)
Tenths(seconds) == seconds * 10

RECURSIVE Pow2(_)
Pow2(n) == IF n = 0 THEN 1 ELSE 2 * Pow2(n - 1)

\* the substring of line 226
RateLimitMarker ==
    <<"r", "a", "t", "e", "_", "l", "i", "m", "i", "t", "_", "e", "x", "c",
      "e", "e", "d", "e", "d">>

\* the literal head of the pattern of line 228, "Please try again in "
RetryHintPrefix ==
    <<"P", "l", "e", "a", "s", "e", " ", "t", "r", "y", " ", "a", "g", "a",
      "i", "n", " ", "i", "n", " ">>

Digits == <<"0", "1", "2", "3", "4", "5", "6", "7", "8", "9">>

IsDigit(c) == \E d \in 1..10 : Digits[d] = c

DigitValue(c) == (CHOOSE d \in 1..10 : Digits[d] = c) - 1

RECURSIVE RunEnd(_, _)
\* the last position of the longest run of [\d.] that starts at position i
\* (i - 1 when the run is empty)
RunEnd(s, i) ==
    IF i <= Len(s) /\ (IsDigit(s[i]) \/ s[i] = ".") THEN RunEnd(s, i + 1) ELSE i - 1

\* re.search(r'Please try again in ([\d.]+)s', s) matches at position p
HintMatchesAt(s, p) ==
    LET from == p + Len(RetryHintPrefix)
        to == RunEnd(s, from)
    IN  /\ p + Len(RetryHintPrefix) - 1 <= Len(s)
        /\ SubSeq(s, p, from - 1) = RetryHintPrefix
        /\ to >= from
        /\ to + 1 <= Len(s)
        /\ s[to + 1] = "s"

HintMatches(s) == \E p \in 1..Len(s) : HintMatchesAt(s, p)

\* match.group(1) of the leftmost match
HintGroup(s) ==
    LET p == CHOOSE q \in 1..Len(s) :
                 HintMatchesAt(s, q) /\ \A r \in 1..(q - 1) : ~HintMatchesAt(s, r)
        from == p + Len(RetryHintPrefix)
    IN  SubSeq(s, from, RunEnd(s, from))

RECURSIVE DigitsValue(_)
DigitsValue(ds) ==
    IF ds = <<>> THEN 0
    ELSE DigitsValue(SubSeq(ds, 1, Len(ds) - 1)) * 10 + DigitValue(ds[Len(ds)])

\* float(text) accepts a run of digits with at most one point and at least
\* one digit, and raises ValueError on any other run of [\d.]
FloatAccepts(text) ==
    /\ Cardinality({i \in 1..Len(text) : text[i] = "."}) <= 1
    /\ \E i \in 1..Len(text) : IsDigit(text[i])

\* float(text) in tenths (the first decimal is kept, which is all the
\* messages of the model carry)
FloatTenths(text) ==
    LET dots == {i \in 1..Len(text) : text[i] = "."}
        dot == IF dots = {} THEN Len(text) + 1 ELSE CHOOSE i \in dots : TRUE
        whole == SubSeq(text, 1, dot - 1)
        frac == SubSeq(text, dot + 1, Len(text))
    IN  DigitsValue(whole) * 10 + (IF frac = <<>> THEN 0 ELSE DigitValue(frac[1]))

\* 'rate_limit_exceeded' in str(e)
IsRateLimitError(msg) == Contains(msg, RateLimitMarker)

ShouldRetry_any_attempt(msg, attempt, max_retries) == IsRateLimitError(msg)

ShouldRetry_any_error(msg, attempt, max_retries) == attempt < max_retries - 1

\* the condition of line 226
ShouldRetry(msg, attempt, max_retries) ==
    IsRateLimitError(msg) /\ attempt < max_retries - 1

\* lines 227-230 when float() accepts the captured text
RetryTime(msg) ==
    IF HintMatches(msg) THEN FloatTenths(HintGroup(msg)) ELSE Tenths(10)

BackoffDelay_constant(base_delay, attempt, msg) ==
    Tenths(base_delay) + RetryTime(msg)

BackoffDelay_linear(base_delay, attempt, msg) ==
    Tenths(base_delay * (attempt + 1)) + RetryTime(msg)

\* line 231
BackoffDelay(base_delay, attempt, msg) ==
    Tenths(base_delay * Pow2(attempt)) + RetryTime(msg)

\* "Max retries reached" (line 236)
MaxRetriesMessage ==
    <<"M", "a", "x", " ", "r", "e", "t", "r", "i", "e", "s", " ", "r", "e",
      "a", "c", "h", "e", "d">>

\* what float() raises inside the handler (line 230)
ValueErrorMessage ==
    <<"c", "o", "u", "l", "d", " ", "n", "o", "t", " ", "c", "o", "n", "v",
      "e", "r", "t", " ", "s", "t", "r", "i", "n", "g", " ", "t", "o", " ",
      "f", "l", "o", "a", "t">>

\* the decorator's own state: w.attempt is the loop variable, w.calls the
\* outcome of every call of func so far, w.sleeps the time.sleep arguments
\* raised: the error that leaves wrapper; kind "op" is `raise e`
WrapperStart(max_retries, base_delay) ==
    [pc |-> "call", max_retries |-> max_retries, base_delay |-> base_delay,
     attempt |-> 0, calls |-> <<>>, sleeps |-> <<>>, slept |-> 0,
     result |-> "none", raised |-> [kind |-> "none", msg |-> <<>>]]

\* the outcome of one call of func, as w.calls records it
Returned == [raised |-> FALSE, msg |-> <<>>]

Raised(msg) == [raised |-> TRUE, msg |-> msg]

\* line 224: func returned value
WrapperOnReturn(w, value) ==
    [w EXCEPT !.pc = "returned", !.calls = Append(@, Returned), !.result = value]

\* lines 225-235: func raised an exception whose str() is msg
WrapperOnException(w, msg) ==
    LET called == [w EXCEPT !.calls = Append(@, Raised(msg))]
    IN  IF ShouldRetry(msg, w.attempt, w.max_retries)
        THEN IF HintMatches(msg) /\ ~FloatAccepts(HintGroup(msg))
             THEN [called EXCEPT !.pc = "raised",
                                 !.raised = [kind |-> "ValueError", msg |-> ValueErrorMessage]]
             ELSE [called EXCEPT !.pc = "sleep",
                                 !.sleeps = Append(@, BackoffDelay(w.base_delay, w.attempt, msg))]
        ELSE [called EXCEPT !.pc = "raised", !.raised = [kind |-> "op", msg |-> msg]]

\* time.sleep(delay) returns and `continue` starts the next iteration
WrapperOnWake(w) ==
    [w EXCEPT !.pc = "call", !.attempt = @ + 1, !.slept = @ + 1]

\* line 236: the loop ended without a return or a raise
WrapperOnExhausted(w) ==
    [w EXCEPT !.pc = "raised",
              !.raised = [kind |-> "generic", msg |-> MaxRetriesMessage]]

(***************************************************************************)
(* More Python string primitives                                           *)
(***************************************************************************)
UpperLetters ==
    <<"A", "B", "C", "D", "E", "F", "G", "H", "I", "J", "K", "L", "M",
      "N", "O", "P", "Q", "R", "S", "T", "U", "V", "W", "X", "Y", "Z">>

LowerLetters ==
    <<"a", "b", "c", "d", "e", "f", "g", "h", "i", "j", "k", "l", "m",
      "n", "o", "p", "q", "r", "s", "t", "u", "v", "w", "x", "y", "z">>

LowerChar(c) ==
    IF \E i \in 1..26 : UpperLetters[i] = c
    THEN LowerLetters[CHOOSE i \in 1..26 : UpperLetters[i] = c]
    ELSE c

\* s.lower()
Lower(s) == [i \in 1..Len(s) |-> LowerChar(s[i])]

\* any(keyword in s for keyword in keywords)
AnyIn(keywords, s) == \E k \in keywords : Contains(s, k)

RECURSIVE SkipSpaces(_, _)
\* the first position from i on that holds no whitespace
SkipSpaces(s, i) ==
    IF i <= Len(s) /\ IsSpace(s[i]) THEN SkipSpaces(s, i + 1) ELSE i

\* s[i:].startswith(word), i counted from 1
StartsWithAt(s, i, word) ==
    /\ i + Len(word) - 1 <= Len(s)
    /\ SubSeq(s, i, i + Len(word) - 1) = word

RECURSIVE StripLeft(_)
StripLeft(s) == IF s # <<>> /\ IsSpace(s[1]) THEN StripLeft(Tail(s)) ELSE s

RECURSIVE StripRight(_)
StripRight(s) ==
    IF s # <<>> /\ IsSpace(s[Len(s)]) THEN StripRight(SubSeq(s, 1, Len(s) - 1)) ELSE s

\* s.strip()
Strip(s) == StripRight(StripLeft(s))

(***************************************************************************)
(* try_structured_extraction                                               *)
(***************************************************************************)
\* analysis.get(field, []): a field map is a function from field names
Get(analysis, field) == IF field \in DOMAIN analysis THEN analysis[field] ELSE <<>>

\* detailed_analysis.get('document_type', 'General Document')
DocumentTypeOf(analysis) ==
    IF "document_type" \in DOMAIN analysis THEN analysis["document_type"]
    ELSE "General Document"

\* the keywords whose presence in the question selects a category (the lists
\* in the conditions of lines 247, 278, 289, 300, 311, 321 and 332)
QueryKeywords(category) ==
    CASE category = "duration" ->
          {<<"d", "u", "r", "a", "t", "i", "o", "n">>,
           <<"p", "e", "r", "i", "o", "d">>,
           <<"t", "e", "r", "m">>,
           <<"p", "o", "l", "i", "c", "y", " ", "t", "e", "r", "m">>,
           <<"p", "o", "l", "i", "c", "y", " ", "p", "e", "r", "i", "o", "d">>,
           <<"l", "e", "n", "g", "t", "h">>,
           <<"h", "o", "w", " ", "l", "o", "n", "g">>}
      [] category = "coverage" ->
          {<<"c", "o", "v", "e", "r", "a", "g", "e">>,
           <<"c", "o", "v", "e", "r", "e", "d">>,
           <<"p", "r", "o", "t", "e", "c", "t", "i", "o", "n">>,
           <<"b", "e", "n", "e", "f", "i", "t", "s">>}
      [] category = "exclusions" ->
          {<<"e", "x", "c", "l", "u", "s", "i", "o", "n">>,
           <<"e", "x", "c", "l", "u", "d", "e", "d">>,
           <<"n", "o", "t", " ", "c", "o", "v", "e", "r", "e", "d">>}
      [] category = "claims" ->
          {<<"c", "l", "a", "i", "m">>,
           <<"f", "i", "l", "e", " ", "a", " ", "c", "l", "a", "i", "m">>,
           <<"c", "l", "a", "i", "m", "s", " ", "p", "r", "o", "c", "e", "s", "s">>,
           <<"h", "o", "w", " ", "t", "o", " ", "c", "l", "a", "i", "m">>}
      [] category = "premium" ->
          {<<"p", "r", "e", "m", "i", "u", "m">>,
           <<"c", "o", "s", "t">>,
           <<"p", "r", "i", "c", "e">>,
           <<"p", "a", "y", "m", "e", "n", "t">>,
           <<"f", "e", "e">>}
      [] category = "terms" ->
          {<<"t", "e", "r", "m", "s">>,
           <<"c", "o", "n", "d", "i", "t", "i", "o", "n", "s">>,
           <<"t", "e", "r", "m", "s", " ", "a", "n", "d", " ", "c", "o", "n", "d", "i", "t", "i", "o", "n", "s">>}
      [] category = "definitions" ->
          {<<"d", "e", "f", "i", "n", "i", "t", "i", "o", "n">>,
           <<"d", "e", "f", "i", "n", "e">>,
           <<"m", "e", "a", "n", "i", "n", "g">>}

\* the keywords a field entry must hold to be the answer of a category (the
\* lists of lines 262, 273, 285, 296, 307, 316, 328 and 339)
TermKeywords(category) ==
    CASE category = "duration" ->
          {<<"d", "u", "r", "a", "t", "i", "o", "n">>,
           <<"p", "e", "r", "i", "o", "d">>,
           <<"t", "e", "r", "m">>,
           <<"p", "o", "l", "i", "c", "y", " ", "t", "e", "r", "m">>,
           <<"p", "o", "l", "i", "c", "y", " ", "p", "e", "r", "i", "o", "d">>}
      [] category = "coverage" ->
          {<<"c", "o", "v", "e", "r", "a", "g", "e">>,
           <<"c", "o", "v", "e", "r", "e", "d">>,
           <<"b", "e", "n", "e", "f", "i", "t", "s">>,
           <<"i", "n", "c", "l", "u", "d", "e", "d">>}
      [] category = "exclusions" ->
          {<<"e", "x", "c", "l", "u", "s", "i", "o", "n">>,
           <<"e", "x", "c", "l", "u", "d", "e", "d">>,
           <<"n", "o", "t", " ", "c", "o", "v", "e", "r", "e", "d">>,
           <<"l", "i", "m", "i", "t", "a", "t", "i", "o", "n">>}
      [] category = "claims" ->
          {<<"c", "l", "a", "i", "m">>,
           <<"c", "l", "a", "i", "m", "s">>,
           <<"f", "i", "l", "e">>,
           <<"p", "r", "o", "c", "e", "s", "s">>,
           <<"p", "r", "o", "c", "e", "d", "u", "r", "e">>}
      [] category = "premium" ->
          {<<"p", "r", "e", "m", "i", "u", "m">>,
           <<"c", "o", "s", "t">>,
           <<"p", "r", "i", "c", "e">>,
           <<"p", "a", "y", "m", "e", "n", "t">>,
           <<"f", "e", "e">>}
      [] category = "terms" ->
          {<<"t", "e", "r", "m", "s">>,
           <<"c", "o", "n", "d", "i", "t", "i", "o", "n", "s">>,
           <<"p", "r", "o", "v", "i", "s", "i", "o", "n">>,
           <<"c", "l", "a", "u", "s", "e">>}
      [] category = "definitions" ->
          {<<"d", "e", "f", "i", "n", "i", "t", "i", "o", "n">>,
           <<"d", "e", "f", "i", "n", "e", "d", " ", "a", "s">>,
           <<"m", "e", "a", "n", "s">>,
           <<"r", "e", "f", "e", "r", "s", " ", "t", "o">>}

\* the alternatives of duration_pattern; "years", "months" and "days" match
\* wherever their singular does
DurationUnits ==
    {<<"y", "e", "a", "r">>,
     <<"m", "o", "n", "t", "h">>,
     <<"d", "a", "y">>}

\* re.search(r'(\d+)\s*(year|years|month|months|day|days)', s)
MatchesDurationPattern(s) ==
    \E j \in 1..Len(s) :
        /\ IsDigit(s[j])
        /\ \E unit \in DurationUnits : StartsWithAt(s, SkipSpaces(s, j + 1), unit)

\* the branches of the if/elif chain of lines 247-332, in its order, each
\* with the query_type that selects it and the keywords that select it
StructuredBranches ==
    <<[query_type |-> "duration", keywords |-> QueryKeywords("duration")],
      [query_type |-> "coverage", keywords |-> QueryKeywords("coverage")],
      [query_type |-> "exclusions", keywords |-> QueryKeywords("exclusions")],
      [query_type |-> "claims", keywords |-> QueryKeywords("claims")],
      [query_type |-> "premium", keywords |-> QueryKeywords("premium")],
      [query_type |-> "terms", keywords |-> QueryKeywords("terms")],
      [query_type |-> "definitions", keywords |-> QueryKeywords("definitions")]>>

\* the condition of branch b of the chain
BranchCondition(b, query_lower, query_type) ==
    \/ query_type = StructuredBranches[b].query_type
    \/ AnyIn(StructuredBranches[b].keywords, query_lower)

\* the branch an if/elif chain runs: the first one whose condition holds
SelectedBranch(query, query_type) ==
    LET query_lower == Lower(query)
        taken == {b \in 1..Len(StructuredBranches) :
                      BranchCondition(b, query_lower, query_type)}
    IN  IF taken = {} THEN "none"
        ELSE StructuredBranches[CHOOSE b \in taken : \A c \in taken : b <= c].query_type

\* the fields of the field map that a branch reads with analysis.get
BranchFields(branch) ==
    CASE branch = "duration" -> {"key_terms", "terms_conditions", "definitions"}
      [] branch = "coverage" -> {"coverage_details"}
      [] branch = "exclusions" -> {"exclusions"}
      [] branch = "claims" -> {"claims_process"}
      [] branch = "premium" -> {"premium_info"}
      [] branch = "terms" -> {"terms_conditions"}
      [] branch = "definitions" -> {"definitions"}
      [] OTHER -> {}

ZeroUsage == [input_tokens |-> 0, output_tokens |-> 0, total_tokens |-> 0]

StructuredAnswer_counted(term) ==
    <<[answer |-> term,
       token_usage |-> [input_tokens |-> estimate_tokens(term), output_tokens |-> 0,
                        total_tokens |-> estimate_tokens(term)]]>>

\* return {"answer": term, "token_usage": {...0...}}; a result is a sequence
\* of no element (None) or one element (the dictionary)
StructuredAnswer(term) == <<[answer |-> term, token_usage |-> ZeroUsage]>>

None == <<>>

RECURSIVE FirstWith_keyword_only(_, _, _)
FirstWith_keyword_only(terms, keywords, with_pattern) ==
    IF terms = <<>> THEN None
    ELSE IF AnyIn(keywords, Lower(terms[1])) THEN StructuredAnswer(terms[1])
    ELSE FirstWith_keyword_only(Tail(terms), keywords, with_pattern)

RECURSIVE FirstWith(_, _, _)
\* the loop `for term in terms: if <test>: return term`, test(term_lower)
\* being: some keyword occurs, and the duration pattern matches if wanted
FirstWith(terms, keywords, with_pattern) ==
    IF terms = <<>> THEN None
    ELSE LET term_lower == Lower(terms[1])
         IN  IF AnyIn(keywords, term_lower)
                   /\ (with_pattern => MatchesDurationPattern(term_lower))
             THEN StructuredAnswer(terms[1])
             ELSE FirstWith(Tail(terms), keywords, with_pattern)

\* lines 248-275
DurationBranch(analysis) ==
    LET all_terms == Get(analysis, "key_terms") \o Get(analysis, "terms_conditions")
                        \o Get(analysis, "definitions")
        with_value == FirstWith(all_terms, TermKeywords("duration"), TRUE)
    IN  IF with_value # None THEN with_value
        ELSE FirstWith(all_terms, TermKeywords("duration"), FALSE)

\* lines 312-318: premium_info is one string
PremiumBranch(analysis) ==
    LET premium_info == Get(analysis, "premium_info")
    IN  IF premium_info # <<>> /\ AnyIn(TermKeywords("premium"), Lower(premium_info))
        THEN StructuredAnswer(premium_info)
        ELSE None

\* the body of a branch of the chain
BranchResult(branch, analysis) ==
    CASE branch = "duration" -> DurationBranch(analysis)
      [] branch = "coverage" ->
            FirstWith(Get(analysis, "coverage_details"), TermKeywords("coverage"), FALSE)
      [] branch = "exclusions" ->
            FirstWith(Get(analysis, "exclusions"), TermKeywords("exclusions"), FALSE)
      [] branch = "claims" ->
            FirstWith(Get(analysis, "claims_process"), TermKeywords("claims"), FALSE)
      [] branch = "premium" -> PremiumBranch(analysis)
      [] branch = "terms" ->
            FirstWith(Get(analysis, "terms_conditions"), TermKeywords("terms"), FALSE)
      [] branch = "definitions" ->
            FirstWith(Get(analysis, "definitions"), TermKeywords("definitions"), FALSE)
      [] OTHER -> None

\* the fields try_structured_extraction reads for a question
ConsultedFields(query, document_type, query_type) ==
    IF document_type = "Insurance Policy"
    THEN BranchFields(SelectedBranch(query, query_type))
    ELSE {}

try_structured_extraction(query, analysis, document_type, query_type) ==
    IF document_type = "Insurance Policy"
    THEN BranchResult(SelectedBranch(query, query_type), analysis)
    ELSE None

(***************************************************************************)
(* GroqAPI (groq_api.py)                                                   *)
(***************************************************************************)
\* the keys of the prompts dictionary; a system prompt is modelled by the
\* key of its template
PromptKeys ==
    {"general", "coverage", "exclusions", "claims", "premium", "duration",
     "terms", "definitions"}

get_system_prompt_identity(query_type) == query_type

\* prompts.get(query_type, prompts["general"])
get_system_prompt(query_type) ==
    IF query_type \in PromptKeys THEN query_type ELSE "general"

\* \w for the characters of the model
IsWordChar(c) ==
    \/ \E i \in 1..26 : LowerLetters[i] = c \/ UpperLetters[i] = c
    \/ IsDigit(c)
    \/ c = "_"

\* the element \w+ of a pattern; the other elements are literal words
Wildcard == <<"*">>

RECURSIVE WordRunEnd(_, _)
\* the position after the longest run of \w that starts at position i
WordRunEnd(s, i) ==
    IF i <= Len(s) /\ IsWordChar(s[i]) THEN WordRunEnd(s, i + 1) ELSE i

RECURSIVE ElementsMatchAt(_, _, _, _)
\* elements k.. of pattern match s from position p on: the elements are
\* separated by \s+ and the last one is followed by \b
ElementsMatchAt(s, p, pattern, k) ==
    LET q == IF pattern[k] = Wildcard THEN WordRunEnd(s, p) ELSE p + Len(pattern[k])
        here == IF pattern[k] = Wildcard THEN q > p ELSE StartsWithAt(s, p, pattern[k])
    IN  /\ here
        /\ IF k = Len(pattern)
           THEN q > Len(s) \/ ~IsWordChar(s[q])
           ELSE /\ q <= Len(s)
                /\ IsSpace(s[q])
                /\ ElementsMatchAt(s, SkipSpaces(s, q), pattern, k + 1)

\* re.search(r'\bw1\s+w2...\b', s)
PatternMatches(s, pattern) ==
    \E p \in 1..Len(s) :
        /\ IsWordChar(s[p])
        /\ p = 1 \/ ~IsWordChar(s[p - 1])
        /\ ElementsMatchAt(s, p, pattern, 1)

\* query_type_patterns, in the order of the dictionary
QueryTypePatterns ==
    <<[query_type |-> "coverage", patterns |->
          {<<<<"c", "o", "v", "e", "r", "a", "g", "e">>>>,
           <<<<"c", "o", "v", "e", "r", "e", "d">>>>,
           <<<<"b", "e", "n", "e", "f", "i", "t", "s">>>>,
           <<<<"i", "n", "c", "l", "u", "d", "e", "d">>>>,
           <<<<"p", "r", "o", "t", "e", "c", "t", "i", "o", "n">>>>,
           <<<<"w", "h", "a", "t">>, <<"i", "s">>, <<"c", "o", "v", "e", "r", "e", "d">>>>,
           <<<<"w", "h", "a", "t">>, <<"d", "o", "e", "s">>, <<"i", "t">>, <<"c", "o", "v", "e", "r">>>>}],
      [query_type |-> "exclusions", patterns |->
          {<<<<"e", "x", "c", "l", "u", "s", "i", "o", "n">>>>,
           <<<<"e", "x", "c", "l", "u", "d", "e", "d">>>>,
           <<<<"n", "o", "t">>, <<"c", "o", "v", "e", "r", "e", "d">>>>,
           <<<<"l", "i", "m", "i", "t", "a", "t", "i", "o", "n">>>>,
           <<<<"r", "e", "s", "t", "r", "i", "c", "t", "i", "o", "n">>>>,
           <<<<"w", "h", "a", "t">>, <<"i", "s">>, <<"n", "o", "t">>, <<"c", "o", "v", "e", "r", "e", "d">>>>,
           <<<<"w", "h", "a", "t">>, <<"a", "r", "e">>, <<"t", "h", "e">>, <<"e", "x", "c", "l", "u", "s", "i", "o", "n", "s">>>>}],
      [query_type |-> "claims", patterns |->
          {<<<<"c", "l", "a", "i", "m">>>>,
           <<<<"c", "l", "a", "i", "m", "s">>, <<"p", "r", "o", "c", "e", "s", "s">>>>,
           <<<<"f", "i", "l", "e">>, <<"a">>, <<"c", "l", "a", "i", "m">>>>,
           <<<<"h", "o", "w">>, <<"t", "o">>, <<"c", "l", "a", "i", "m">>>>,
           <<<<"c", "l", "a", "i", "m">>, <<"p", "r", "o", "c", "e", "d", "u", "r", "e">>>>,
           <<<<"c", "l", "a", "i", "m">>, <<"t", "i", "m", "e", "l", "i", "n", "e">>>>}],
      [query_type |-> "premium", patterns |->
          {<<<<"p", "r", "e", "m", "i", "u", "m">>>>,
           <<<<"c", "o", "s", "t">>>>,
           <<<<"p", "r", "i", "c", "e">>>>,
           <<<<"p", "a", "y", "m", "e", "n", "t">>>>,
           <<<<"f", "e", "e">>>>,
           <<<<"i", "n", "s", "t", "a", "l", "l", "m", "e", "n", "t">>>>,
           <<<<"h", "o", "w">>, <<"m", "u", "c", "h">>>>,
           <<<<"p", "a", "y", "m", "e", "n", "t">>, <<"s", "c", "h", "e", "d", "u", "l", "e">>>>}],
      [query_type |-> "duration", patterns |->
          {<<<<"d", "u", "r", "a", "t", "i", "o", "n">>>>,
           <<<<"p", "e", "r", "i", "o", "d">>>>,
           <<<<"t", "e", "r", "m">>>>,
           <<<<"p", "o", "l", "i", "c", "y">>, <<"t", "e", "r", "m">>>>,
           <<<<"p", "o", "l", "i", "c", "y">>, <<"p", "e", "r", "i", "o", "d">>>>,
           <<<<"h", "o", "w">>, <<"l", "o", "n", "g">>>>,
           <<<<"l", "e", "n", "g", "t", "h">>>>,
           <<<<"v", "a", "l", "i", "d", "i", "t", "y">>>>,
           <<<<"w", "h", "e", "n">>, <<"d", "o", "e", "s">>, <<"i", "t">>, <<"e", "x", "p", "i", "r", "e">>>>}],
      [query_type |-> "terms", patterns |->
          {<<<<"t", "e", "r", "m", "s">>>>,
           <<<<"c", "o", "n", "d", "i", "t", "i", "o", "n", "s">>>>,
           <<<<"t", "e", "r", "m", "s">>, <<"a", "n", "d">>, <<"c", "o", "n", "d", "i", "t", "i", "o", "n", "s">>>>,
           <<<<"c", "o", "n", "t", "r", "a", "c", "t", "u", "a", "l">>>>,
           <<<<"o", "b", "l", "i", "g", "a", "t", "i", "o", "n">>>>,
           <<<<"r", "e", "q", "u", "i", "r", "e", "m", "e", "n", "t", "s">>>>}],
      [query_type |-> "definitions", patterns |->
          {<<<<"d", "e", "f", "i", "n", "i", "t", "i", "o", "n">>>>,
           <<<<"d", "e", "f", "i", "n", "e">>>>,
           <<<<"m", "e", "a", "n", "i", "n", "g">>>>,
           <<<<"t", "e", "r", "m", "i", "n", "o", "l", "o", "g", "y">>>>,
           <<<<"g", "l", "o", "s", "s", "a", "r", "y">>>>,
           <<<<"w", "h", "a", "t">>, <<"d", "o", "e", "s">>, Wildcard, <<"m", "e", "a", "n">>>>}]>>

\* the first query type one of whose patterns matches, "none" for None
suggest_query_type(query) ==
    LET query_lower == Lower(query)
        hits == {t \in 1..Len(QueryTypePatterns) :
                    \E pattern \in QueryTypePatterns[t].patterns :
                        PatternMatches(query_lower, pattern)}
    IN  IF hits = {} THEN "none"
        ELSE QueryTypePatterns[CHOOSE t \in hits : \A u \in hits : t <= u].query_type

\* the text of a query type inside a formatted string
QueryTypeText(query_type) ==
    CASE query_type = "coverage" -> <<"c", "o", "v", "e", "r", "a", "g", "e">>
      [] query_type = "exclusions" -> <<"e", "x", "c", "l", "u", "s", "i", "o", "n", "s">>
      [] query_type = "claims" -> <<"c", "l", "a", "i", "m", "s">>
      [] query_type = "premium" -> <<"p", "r", "e", "m", "i", "u", "m">>
      [] query_type = "duration" -> <<"d", "u", "r", "a", "t", "i", "o", "n">>
      [] query_type = "terms" -> <<"t", "e", "r", "m", "s">>
      [] query_type = "definitions" -> <<"d", "e", "f", "i", "n", "i", "t", "i", "o", "n", "s">>
      [] query_type = "general" -> <<"g", "e", "n", "e", "r", "a", "l">>
      [] query_type = "hackathon" -> <<"h", "a", "c", "k", "a", "t", "h", "o", "n">>

\* suggestion_note (line 121), without its leading emoji
SuggestionNote(suggested_query_type) ==
    <<"\n", "\n", "T", "i", "p", ":", " ", "F", "o", "r", " ", "m", "o", "r", "e", " ", "s", "p", "e", "c", "i", "f", "i", "c", " ", "i", "n", "f", "o", "r", "m", "a", "t", "i", "o", "n", " ", "a", "b", "o", "u", "t", " ", "t", "h", "i", "s", " ", "t", "o", "p", "i", "c", ",", " ", "t", "r", "y", " ", "u", "s", "i", "n", "g", " ", "t", "h", "e", " ", "'">>
        \o QueryTypeText(suggested_query_type)
        \o <<"'", " ", "q", "u", "e", "r", "y", " ", "t", "y", "p", "e", ".">>

\* user_prompt (line 92)
UserPrompt(query, context) ==
    <<"C", "o", "n", "t", "e", "x", "t", ":", "\n">> \o context
        \o <<"\n", "\n", "Q", "u", "e", "s", "t", "i", "o", "n", ":", "\n">> \o query

\* "Groq API error: "
GroqErrorPrefix ==
    <<"G", "r", "o", "q", " ", "A", "P", "I", " ", "e", "r", "r", "o", "r", ":", " ">>

\* the arguments of self.client.chat.completions.create that vary
ChatRequest(query, context, query_type) ==
    [system |-> get_system_prompt(query_type), user |-> UserPrompt(query, context)]

\* debug_info (lines 135 and 140)
DebugInfo(query_type, suggested_query_type) ==
    <<"A", "n", "s", "w", "e", "r", "e", "d", " ", "u", "s", "i", "n", "g", " ">> \o QueryTypeText(query_type)
        \o <<" ", "m", "o", "d", "e">>
        \o (IF suggested_query_type = "none" THEN <<>>
            ELSE <<" ", "(", "s", "u", "g", "g", "e", "s", "t", "e", "d", ":", " ">>
                     \o QueryTypeText(suggested_query_type) \o <<")">>)

ResponseDict_uses_suggestion(answer, usage, query_type, suggested_query_type) ==
    IF suggested_query_type # "none"
    THEN [answer |-> answer \o SuggestionNote(suggested_query_type),
          token_usage |-> [input_tokens |-> usage.prompt_tokens,
                           output_tokens |-> usage.completion_tokens,
                           total_tokens |-> usage.total_tokens],
          query_type_used |-> suggested_query_type,
          debug_info |-> DebugInfo(query_type, suggested_query_type),
          suggested_query_type |-> suggested_query_type]
    ELSE [answer |-> answer,
          token_usage |-> [input_tokens |-> usage.prompt_tokens,
                           output_tokens |-> usage.completion_tokens,
                           total_tokens |-> usage.total_tokens],
          query_type_used |-> query_type,
          debug_info |-> DebugInfo(query_type, suggested_query_type)]

\* lines 117-141: the dictionary for an answer, given the suggestion (or "none")
ResponseDict(answer, usage, query_type, suggested_query_type) ==
    IF suggested_query_type # "none"
    THEN [answer |-> answer \o SuggestionNote(suggested_query_type),
          token_usage |-> [input_tokens |-> usage.prompt_tokens,
                           output_tokens |-> usage.completion_tokens,
                           total_tokens |-> usage.total_tokens],
          query_type_used |-> query_type,
          debug_info |-> DebugInfo(query_type, suggested_query_type),
          suggested_query_type |-> suggested_query_type]
    ELSE [answer |-> answer,
          token_usage |-> [input_tokens |-> usage.prompt_tokens,
                           output_tokens |-> usage.completion_tokens,
                           total_tokens |-> usage.total_tokens],
          query_type_used |-> query_type,
          debug_info |-> DebugInfo(query_type, suggested_query_type)]

\* lines 107-141: the dictionary built from a reply of the service
ResponseData(query, query_type, reply) ==
    ResponseDict(Strip(reply.content), reply.usage, query_type,
                 IF query_type = "general" THEN suggest_query_type(query) ELSE "none")

\* query_document, given what the external service does with the request:
\* reply.raised with the str() of its error, or a reply with content and usage
query_document(query, context, query_type, reply) ==
    IF reply.raised
    THEN [raised |-> TRUE, msg |-> GroqErrorPrefix \o reply.msg]
    ELSE [raised |-> FALSE, value |-> ResponseData(query, query_type, reply)]

\* the two files of a document key: absent, or the index of ntotal rows and
\* the pickled chunk list
NoStore == [exists |-> FALSE, ntotal |-> 0, chunks |-> <<>>]

\* retrieve_relevant_chunks, given the labels the search returns
retrieve_relevant_chunks(store, indices, max_tokens) ==
    IF ~store.exists THEN <<>>
    ELSE IF store.ntotal = 0 THEN <<>>
    ELSE AccumulateChunks(indices, 1, store.chunks, max_tokens, <<>>, 0)

\* create_vector_index: one row per chunk, and the chunk list beside it
create_vector_index(chunks) ==
    [exists |-> TRUE, ntotal |-> Len(chunks), chunks |-> chunks]

(***************************************************************************)
(* The request handlers process_query and hackrx_run                       *)
(***************************************************************************)
DefaultChunkSize == 300
RetrievalBudget == 1500
RetrievalTopK == 3
DefaultMaxRetries == 3
DefaultBaseDelay == 1

\* jsonify(body), status
Response(status, body) == [status |-> status, body |-> body]

SomethingWentWrong ==
    <<"S", "o", "m", "e", "t", "h", "i", "n", "g", " ", "w", "e", "n", "t", " ", "w", "r", "o", "n", "g", ":", " ">>

\* what embeddings.shape[1] raises in create_vector_index for no chunk
NoChunksMessage ==
    <<"t", "u", "p", "l", "e", " ", "i", "n", "d", "e", "x", " ", "o", "u", "t", " ", "o", "f", " ", "r", "a", "n", "g", "e">>

\* what a handler, or a part of one, did: the calls it made, in order, and
\* how it ended (Returned with a value, or Raised with the str() of the error)
Ran(events, outcome) == [events |-> events, outcome |-> outcome]

ReturnedValue(value) == [raised |-> FALSE, value |-> value]

ExtractEvent(attempt, qi, question, document_type, query_type, result) ==
    [op |-> "extract", attempt |-> attempt, qi |-> qi, question |-> question,
     consulted |-> ConsultedFields(question, document_type, query_type),
     result |-> result]

RetrieveEvent(attempt, qi, question, chunks) ==
    [op |-> "retrieve", attempt |-> attempt, qi |-> qi, question |-> question,
     chunks |-> chunks]

GenerateEvent(attempt, qi, question, context, query_type, returned) ==
    [op |-> "generate", attempt |-> attempt, qi |-> qi, question |-> question,
     context |-> context, query_type |-> query_type,
     request |-> ChatRequest(question, context, query_type), returned |-> returned]

\* lines 430-431: the result of query_document is the result of the routing
RouteAfterGeneration(extract, retrieve, question, context, query_type, attempt, qi, returned) ==
    Ran(<<extract, retrieve,
          GenerateEvent(attempt, qi, question, context, query_type, returned)>>,
        returned)

JoinContext_spaces(relevant_chunks) == StrJoin(<<" ">>, relevant_chunks)

\* line 429: context = "\n".join(relevant_chunks)
JoinContext(relevant_chunks) == StrJoin(<<"\n">>, relevant_chunks)

\* lines 429-430, after retrieve_relevant_chunks returned relevant_chunks
RouteAfterRetrieval(extract, retrieve, question, query_type, reply, attempt, qi, context) ==
    RouteAfterGeneration(extract, retrieve, question, context, query_type, attempt, qi,
                         query_document(question, context, query_type, reply))

RouteAfterExtraction_skip_empty(extract, question, query_type, reply, attempt, qi, relevant_chunks) ==
    IF extract.result # None
    THEN Ran(<<extract>>, ReturnedValue(extract.result[1]))
    ELSE IF relevant_chunks = <<>>
    THEN Ran(<<extract, RetrieveEvent(attempt, qi, question, relevant_chunks)>>,
             ReturnedValue(StructuredAnswer(<<>>)[1]))
    ELSE RouteAfterRetrieval(extract,
                             RetrieveEvent(attempt, qi, question, relevant_chunks),
                             question, query_type, reply, attempt, qi,
                             JoinContext(relevant_chunks))

\* lines 424-430, after try_structured_extraction returned extract.result
RouteAfterExtraction(extract, question, query_type, reply, attempt, qi, relevant_chunks) ==
    IF extract.result # None
    THEN Ran(<<extract>>, ReturnedValue(extract.result[1]))
    ELSE RouteAfterRetrieval(extract,
                             RetrieveEvent(attempt, qi, question, relevant_chunks),
                             question, query_type, reply, attempt, qi,
                             JoinContext(relevant_chunks))

\* lines 420-431 of process_query, and the same lines 501-511 of hackrx_run:
\* the structured answer if there is one, else retrieval and generation.
\* indices is what index.search returns and reply what the service does;
\* retrieval is only run (and logged) when no structured answer was found.
RouteQuestion(question, analysis, query_type, store, indices, reply, attempt, qi) ==
    RouteAfterExtraction(
        ExtractEvent(attempt, qi, question, DocumentTypeOf(analysis), query_type,
                     try_structured_extraction(question, analysis,
                                               DocumentTypeOf(analysis), query_type)),
        question, query_type, reply, attempt, qi,
        retrieve_relevant_chunks(store, indices, RetrievalBudget))

\* line 433: return jsonify(result)
QueryResponse(routed) ==
    IF routed.outcome.raised THEN routed
    ELSE Ran(routed.events, ReturnedValue(Response(200, routed.outcome.value)))

\* process_query: the body of one call of the handler
process_query(req, store, indices, reply, attempt) ==
    IF req.query = <<>>
    THEN Ran(<<>>, ReturnedValue(Response(400, [error |-> "No query provided"])))
    ELSE IF req.document_text = <<>> \/ req.filename = ""
    THEN Ran(<<>>, ReturnedValue(Response(400, [error |-> "No document text or filename provided"])))
    ELSE QueryResponse(RouteQuestion(req.query, req.detailed_analysis, req.query_type,
                                     store, indices, reply, attempt, 1))

\* lines 495-497 (and 377-379, 448-450): the Resume/CV override
OverrideDocumentType(detailed_analysis, simple_document_type) ==
    IF DocumentTypeOf(detailed_analysis) = "Resume/CV"
          /\ "document_type" \in DOMAIN detailed_analysis
          /\ simple_document_type = "Insurance Policy"
    THEN [detailed_analysis EXCEPT !["document_type"] = "Insurance Policy"]
    ELSE detailed_analysis

RECURSIVE AnswerNext(_, _, _, _, _, _, _, _, _, _)
RECURSIVE AnswerQuestions(_, _, _, _, _, _, _, _, _)
\* the loop of lines 500-513 from question qi on, events being what the
\* earlier iterations did; an exception leaves the loop
AnswerQuestions(questions, qi, analysis, store, indices, replies, attempt, answers, events) ==
    IF qi > Len(questions) THEN Ran(events, ReturnedValue(answers))
    ELSE AnswerNext(questions, qi, analysis, store, indices, replies, attempt, answers,
                    events,
                    RouteQuestion(questions[qi], analysis, "hackathon", store,
                                  indices[qi], replies[qi], attempt, qi))

\* the loop going on with the next question after a failed one
AnswerNext_skips_failed(questions, qi, analysis, store, indices, replies, attempt, answers, events, routed) ==
    AnswerQuestions(questions, qi + 1, analysis, store, indices, replies, attempt,
                    IF routed.outcome.raised THEN answers
                    ELSE Append(answers, routed.outcome.value.answer),
                    events \o routed.events)

\* lines 511-513: answers.append(result.get("answer", ...))
AnswerNext(questions, qi, analysis, store, indices, replies, attempt, answers, events, routed) ==
    IF routed.outcome.raised
    THEN Ran(events \o routed.events, routed.outcome)
    ELSE AnswerQuestions(questions, qi + 1, analysis, store, indices, replies, attempt,
                         Append(answers, routed.outcome.value.answer),
                         events \o routed.events)

\* except Exception as e (lines 516-517)
SomethingWentWrongResponse(msg) ==
    Response(500, [error |-> SomethingWentWrong \o msg])

\* lines 515-517: the answers, or the error of the loop as a response
HackrxResponse(loop) ==
    Ran(loop.events,
        IF loop.outcome.raised
        THEN ReturnedValue(SomethingWentWrongResponse(loop.outcome.msg))
        ELSE ReturnedValue(Response(200, [answers |-> loop.outcome.value])))

\* what a call of hackrx_run did, and the index files as it leaves them
HackrxCall(ran, store) == [ran |-> ran, store |-> store]

\* lines 487-513, chunks being the chunks of the fetched text
IngestAndAnswer(req, store, indices, replies, attempt, chunks) ==
    IF chunks = <<>>
    THEN HackrxCall(Ran(<<>>, ReturnedValue(SomethingWentWrongResponse(NoChunksMessage))),
                    store)
    ELSE HackrxCall(
             HackrxResponse(
                 AnswerQuestions(req.questions, 1,
                                 OverrideDocumentType(req.doc.detailed_analysis,
                                                      req.doc.simple_document_type),
                                 create_vector_index(chunks), indices, replies, attempt,
                                 <<>>, <<>>)),
             create_vector_index(chunks))

\* hackrx_run: the body of one call of the handler
hackrx_run(req, store, indices, replies, attempt) ==
    IF req.auth = "missing"
    THEN HackrxCall(Ran(<<>>, ReturnedValue(Response(401, [error |-> "Missing or invalid authorization header"]))),
                    store)
    ELSE IF req.auth # "ok"
    THEN HackrxCall(Ran(<<>>, ReturnedValue(Response(401, [error |-> "Unauthorized"]))),
                    store)
    ELSE IF ~req.documents \/ req.questions = <<>>
    THEN HackrxCall(Ran(<<>>, ReturnedValue(Response(400, [error |-> "Missing documents or questions"]))),
                    store)
    ELSE IF req.fetch_status # 200
    THEN HackrxCall(Ran(<<>>, ReturnedValue(Response(400, [error |-> "Unable to fetch document"]))),
                    store)
    ELSE IngestAndAnswer(req, store, indices, replies, attempt,
                         split_document(req.doc.text, DefaultChunkSize))

(***************************************************************************)
(* The components at rest                                                  *)
(***************************************************************************)
RetryIdle == [WrapperStart(0, 0) EXCEPT !.pc = "idle"]

\* no request is being handled (the specifications of the other components)
RouterIdle ==
    [kind |-> "idle", req |-> <<>>, store |-> NoStore, w |-> RetryIdle, log |-> <<>>]

\* no ingestion has started and no file is in the vector store directory
DiskIdle == [clock |-> 0, files |-> <<>>, procs |-> <<>>, read |-> <<>>]

\* the shared DocumentAnalyzer as __init__ leaves it, no request running
AnalyzerIdle == [document_type |-> "None", threads |-> <<>>]

IngestIdle == [pc |-> "none"]

\* no request has been received
FrontIdle == [pc |-> "none"]

\* no call of the Perplexity client is under way
PerplexityIdle == [pc |-> "none"]

\* no section is being looked for
FinderIdle == [pc |-> "none"]

\* the chunker at rest (the specifications of the other components)
SplitIdle == [pc |-> "idle", text |-> <<>>, chunk_size |-> 1, chunks |-> <<>>]

ChunkLetters == <<"a", "b", "c", "d", "e">>

\* chunk lists of 1..MaxChunks chunks, chunk i being 1..MaxChunkLen times
\* the i-th letter
ChunkLists ==
    UNION { { [i \in 1..n |-> [j \in 1..lens[i] |-> ChunkLetters[i]]] :
                lens \in [1..n -> 1..MaxChunkLen] } : n \in 1..MaxChunks }

Stores == {NoStore} \cup {create_vector_index(c) : c \in ChunkLists}

RetrIdle == [pc |-> "idle", store |-> NoStore, max_tokens |-> 0, top_k |-> 0,
             indices |-> <<>>, result |-> <<>>]

InitRetrieve ==
    /\ \E s \in Stores : retr = [RetrIdle EXCEPT !.pc = "start", !.store = s]
    /\ split = SplitIdle
    /\ retry = RetryIdle
    /\ router = RouterIdle
    /\ disk = DiskIdle
    /\ analyzer = AnalyzerIdle
    /\ ingest = IngestIdle
    /\ front = FrontIdle
    /\ perplexity = PerplexityIdle
    /\ finder = FinderIdle

\* one call of retrieve_relevant_chunks on the stored document
Retrieve ==
    /\ retr.pc = "start"
    /\ \E max_tokens \in 0..MaxBudget, top_k \in 1..MaxTopK :
         \E indices \in (IF retr.store.exists /\ retr.store.ntotal > 0
                         THEN IndexSearch(retr.store.ntotal, top_k)
                         ELSE {<<>>}) :
            retr' = [retr EXCEPT !.pc = "done",
                                 !.max_tokens = max_tokens,
                                 !.top_k = top_k,
                                 !.indices = indices,
                                 !.result = retrieve_relevant_chunks(retr.store, indices, max_tokens)]
    /\ UNCHANGED <<split, retry, router, disk, analyzer, ingest, front, perplexity, finder>>

NextRetrieve == Retrieve

SpecRetrieve == InitRetrieve /\ [][NextRetrieve]_vars

\* C1: the context joined from the retrieved chunks has an estimated token
\* count (characters / 4) within the budget max_tokens.  Stated for the
\* searches that found top_k rows of the index, where every label is a row.
C1_ContextWithinBudget ==
    (retr.pc = "done" /\ retr.top_k <= retr.store.ntotal) =>
        estimate_tokens(StrJoin(<<"\n">>, retr.result)) <= retr.max_tokens

(***************************************************************************)
(* The decorator around an operation that succeeds or fails at each call   *)
(***************************************************************************)
\* "boom"
MsgOther == <<"b", "o", "o", "m">>

\* "rate_limit_exceeded"
MsgRateLimit == RateLimitMarker

\* "try again in 2.5s"
TryAgain25 ==
    <<"t", "r", "y", " ", "a", "g", "a", "i", "n", " ", "i", "n", " ",
      "2", ".", "5", "s">>

\* "rate_limit_exceeded. Please try again in 2.5s"
MsgRateLimitPlease == RateLimitMarker \o <<".", " ", "P", "l", "e", "a", "s", "e", " ">> \o TryAgain25

\* "rate_limit_exceeded, try again in 2.5s"
MsgRateLimitBare == RateLimitMarker \o <<",", " ">> \o TryAgain25

\* "rate_limit_exceeded. Please try again in 7s."
MsgRateLimitPlease7 == RateLimitMarker \o <<".", " ">> \o RetryHintPrefix \o <<"7", "s", ".">>

\* "Please try again in 2.5s"
MsgPleaseOnly == <<"P", "l", "e", "a", "s", "e", " ">> \o TryAgain25

\* "rate_limit_exceeded. Please try again in 1.2.3s"
MsgRateLimitBadHint ==
    RateLimitMarker \o <<".", " ">> \o RetryHintPrefix \o <<"1", ".", "2", ".", "3", "s">>

\* the str() of the errors the operation raises
ErrorMessages ==
    {MsgOther, MsgRateLimit, MsgRateLimitPlease, MsgRateLimitBare,
     MsgRateLimitPlease7, MsgPleaseOnly, MsgRateLimitBadHint}

\* what the wrapped operation returns when it succeeds
OpResult == "result"

InitRetry ==
    /\ \E max_retries \in 0..MaxRetriesBound, base_delay \in 1..MaxBaseDelay :
          retry = WrapperStart(max_retries, base_delay)
    /\ split = SplitIdle
    /\ retr = RetrIdle
    /\ router = RouterIdle
    /\ disk = DiskIdle
    /\ analyzer = AnalyzerIdle
    /\ ingest = IngestIdle
    /\ front = FrontIdle
    /\ perplexity = PerplexityIdle
    /\ finder = FinderIdle

\* an iteration of the loop in which func returns
RetryCallReturns ==
    /\ retry.pc = "call"
    /\ retry.attempt < retry.max_retries
    /\ retry' = WrapperOnReturn(retry, OpResult)
    /\ UNCHANGED <<split, retr, router, disk, analyzer, ingest, front, perplexity, finder>>

\* an iteration of the loop in which func raises
RetryCallRaises ==
    /\ retry.pc = "call"
    /\ retry.attempt < retry.max_retries
    /\ \E msg \in ErrorMessages : retry' = WrapperOnException(retry, msg)
    /\ UNCHANGED <<split, retr, router, disk, analyzer, ingest, front, perplexity, finder>>

RetryWake ==
    /\ retry.pc = "sleep"
    /\ retry' = WrapperOnWake(retry)
    /\ UNCHANGED <<split, retr, router, disk, analyzer, ingest, front, perplexity, finder>>

RetryExhausted ==
    /\ retry.pc = "call"
    /\ retry.attempt >= retry.max_retries
    /\ retry' = WrapperOnExhausted(retry)
    /\ UNCHANGED <<split, retr, router, disk, analyzer, ingest, front, perplexity, finder>>

NextRetry == RetryCallReturns \/ RetryCallRaises \/ RetryWake \/ RetryExhausted

SpecRetry == InitRetry /\ [][NextRetry]_vars

RetryEnded == retry.pc \in {"returned", "raised"}

RECURSIVE SumSeq(_)
SumSeq(ns) == IF ns = <<>> THEN 0 ELSE ns[1] + SumSeq(Tail(ns))

\* a rate-limit error whose message embeds "try again in 2.5s"
IsRateLimit25(outcome) ==
    /\ outcome.raised
    /\ Contains(outcome.msg, RateLimitMarker)
    /\ Contains(outcome.msg, TryAgain25)

\* the calls so far are those of an operation that fails twice with such an
\* error (the same one both times) and then succeeds
FailsTwiceThenSucceeds ==
    /\ Len(retry.calls) >= 1
    /\ \A i \in 1..Len(retry.calls) :
          /\ i <= 2 => IsRateLimit25(retry.calls[i]) /\ retry.calls[i] = retry.calls[1]
          /\ i = 3 => retry.calls[i] = Returned

\* C5: an operation that fails twice with a rate-limit error embedding
\* "try again in 2.5s" and then succeeds is called exactly 3 times by the
\* wrapper with max_retries 3, which returns its result after sleeping at
\* least (base_delay*1 + 2.5) + (base_delay*2 + 2.5) seconds in total, the
\* second sleep longer than the first.
C5_TwoRateLimitsThenSuccess ==
    (RetryEnded /\ retry.max_retries = 3 /\ FailsTwiceThenSucceeds) =>
        /\ Len(retry.calls) = 3
        /\ retry.pc = "returned"
        /\ retry.result = OpResult
        /\ Len(retry.sleeps) = 2
        /\ retry.slept = 2
        /\ SumSeq(retry.sleeps) >= (retry.base_delay * 10 + 25) + (retry.base_delay * 20 + 25)
        /\ retry.sleeps[2] > retry.sleeps[1]

C5_Witness ==
    /\ retry.pc = "returned"
    /\ retry.max_retries = 3
    /\ retry.calls = <<Raised(MsgRateLimitPlease), Raised(MsgRateLimitPlease), Returned>>
    /\ retry.sleeps = <<35, 45>>

\* the messages of the model that are rate-limit errors
RateLimitMessages ==
    {MsgRateLimit, MsgRateLimitPlease, MsgRateLimitBare, MsgRateLimitPlease7,
     MsgRateLimitBadHint}

\* the seconds value (in tenths) that follows "try again in" in a message,
\* 10 s when the message carries none
HintAfterTryAgain(msg) ==
    IF Contains(msg, TryAgain25) THEN 25
    ELSE IF msg = MsgRateLimitPlease7 THEN 70
    ELSE 100

\* the seconds value (in tenths) that follows "Please try again in" in a
\* message, 10 s when the message has no such phrase
HintAfterPleaseTryAgain(msg) ==
    IF msg \in {MsgRateLimitPlease, MsgPleaseOnly} THEN 25
    ELSE IF msg = MsgRateLimitPlease7 THEN 70
    ELSE 100

\* the part of C6 that does not depend on how the hint is read: the
\* operation is called at most max_retries times, a rate-limit failure that
\* is not the final attempt is followed by a sleep, and no call is made
\* while a sleep is in progress
RetryCallsAndSleepsInStep ==
    /\ Len(retry.calls) <= retry.max_retries
    /\ \A i \in 1..Len(retry.calls) :
          (retry.calls[i].msg \in RateLimitMessages \ {MsgRateLimitBadHint}
              /\ i < retry.max_retries) => Len(retry.sleeps) >= i
    /\ retry.pc = "sleep" =>
          /\ Len(retry.sleeps) = Len(retry.calls)
          /\ retry.slept = Len(retry.calls) - 1
    /\ retry.pc = "call" =>
          /\ Len(retry.sleeps) = Len(retry.calls)
          /\ retry.slept = Len(retry.calls)

C7_OtherErrorsPropagateAtOnce ==
    (/\ Len(retry.calls) >= 1
     /\ retry.calls[Len(retry.calls)].raised
     /\ \/ retry.calls[Len(retry.calls)].msg \notin RateLimitMessages
        \/ Len(retry.calls) = retry.max_retries) =>
        /\ retry.pc = "raised"
        /\ retry.raised = [kind |-> "op", msg |-> retry.calls[Len(retry.calls)].msg]
        /\ Len(retry.sleeps) = Len(retry.calls) - 1
        /\ retry.slept = Len(retry.sleeps)

\* a rate-limit failure on the last of three attempts, after two sleeps
C7_Witness ==
    /\ retry.pc = "raised"
    /\ retry.max_retries = 3
    /\ retry.calls = <<Raised(MsgRateLimit), Raised(MsgRateLimitPlease), Raised(MsgRateLimitPlease)>>
    /\ retry.raised.kind = "op"
    /\ retry.slept = 2

AllAttemptsFailed ==
    /\ RetryEnded
    /\ Len(retry.calls) = retry.max_retries
    /\ \A i \in 1..Len(retry.calls) : retry.calls[i].raised

\* C8 as stated: when every one of the max_retries attempts fails, the
\* wrapper ends by raising the generic "Max retries reached" failure.
C8_ExhaustionRaisesGeneric ==
    AllAttemptsFailed =>
        retry.raised = [kind |-> "generic", msg |-> MaxRetriesMessage]

\* C8 (amended): when every one of the max_retries >= 1 attempts fails, the
\* wrapper ends by raising the error of the last attempt; the generic
\* "Max retries reached" failure is raised only when max_retries is 0 and
\* the operation is never called.
C8_ExhaustionRaisesLastError ==
    /\ (AllAttemptsFailed /\ retry.max_retries >= 1) =>
          retry.raised = [kind |-> "op", msg |-> retry.calls[retry.max_retries].msg]
    /\ retry.raised.kind = "generic" =>
          retry.max_retries = 0 /\ retry.calls = <<>>

\* three rate-limit failures out of three attempts
C8_Witness ==
    /\ AllAttemptsFailed
    /\ retry.max_retries = 3
    /\ \A i \in 1..3 : retry.calls[i] = Raised(MsgRateLimitPlease7)
    /\ retry.raised.kind = "op"

(***************************************************************************)
(* The chunker as a state machine                                          *)
(***************************************************************************)
Alphabet == {"a", "b", " ", "\n"}

RECURSIVE StringsUpTo(_)
StringsUpTo(n) ==
    IF n = 0 THEN {<<>>}
    ELSE LET shorter == StringsUpTo(n - 1)
         IN  shorter \cup {Append(s, c) : s \in {t \in shorter : Len(t) = n - 1}, c \in Alphabet}

Texts == StringsUpTo(MaxTextLen)

InitSplit ==
    /\ \E t \in Texts, cs \in 1..MaxChunkSize :
          split = [pc |-> "start", text |-> t, chunk_size |-> cs, chunks |-> <<>>]
    /\ retr = RetrIdle
    /\ retry = RetryIdle
    /\ router = RouterIdle
    /\ disk = DiskIdle
    /\ analyzer = AnalyzerIdle
    /\ ingest = IngestIdle
    /\ front = FrontIdle
    /\ perplexity = PerplexityIdle
    /\ finder = FinderIdle

SplitDocument ==
    /\ split.pc = "start"
    /\ split' = [split EXCEPT !.pc = "done",
                              !.chunks = split_document(split.text, split.chunk_size)]
    /\ UNCHANGED <<retr, retry, router, disk, analyzer, ingest, front, perplexity, finder>>

NextSplit == SplitDocument

SpecSplit == InitSplit /\ [][NextSplit]_vars

RECURSIVE Flatten(_)
Flatten(ss) == IF ss = <<>> THEN <<>> ELSE ss[1] \o Flatten(Tail(ss))

\* C10: the words of the chunks, taken in chunk order, are exactly the
\* whitespace-separated words of the text in their original order.
C10_WordsPreserved ==
    split.pc = "done" =>
        Flatten([k \in 1..Len(split.chunks) |-> StrSplit(split.chunks[k])])
            = StrSplit(split.text)

\* a text of three words over two chunks, the second shorter than the first
C10_Witness ==
    /\ split.pc = "done"
    /\ Len(StrSplit(split.text)) = 3
    /\ split.chunk_size = 2
    /\ Len(split.chunks) = 2

\* the number of maximal runs of non-whitespace characters of a text
WordCount(text) ==
    Cardinality({i \in 1..Len(text) :
                    ~IsSpace(text[i]) /\ (i = 1 \/ IsSpace(text[i - 1]))})

\* C11: split_document returns ceil(wordCount(text) / chunk_size) chunks;
\* every chunk but the last has chunk_size words, the last has between 1
\* and chunk_size words; a text without a word gives the empty sequence.
C11_ChunkCountAndSizes ==
    split.pc = "done" =>
        LET n == WordCount(split.text)
            count == Len(split.chunks)
        IN  /\ count = (n + split.chunk_size - 1) \div split.chunk_size
            /\ \A k \in 1..(count - 1) : WordCount(split.chunks[k]) = split.chunk_size
            /\ count > 0 =>
                  /\ WordCount(split.chunks[count]) >= 1
                  /\ WordCount(split.chunks[count]) <= split.chunk_size
            /\ n = 0 => split.chunks = <<>>

\* three words in chunks of two: a full chunk and a last chunk of one word
C11_Witness ==
    /\ split.pc = "done"
    /\ WordCount(split.text) = 3
    /\ split.chunk_size = 2
    /\ WordCount(split.chunks[1]) = 2
    /\ WordCount(split.chunks[2]) = 1

\* a whitespace-only text was split into no chunk
WhitespaceOnlySplit ==
    /\ split.pc = "done"
    /\ Len(split.text) > 0
    /\ WordCount(split.text) = 0
    /\ split.chunks = <<>>

(***************************************************************************)
(* The two request handlers under the decorator: one request per behaviour *)
(***************************************************************************)
MaxQuestions == 2

QuestionColor ==
    <<"W", "h", "a", "t", " ", "c", "o", "l", "o", "r", " ", "i", "s", " ", "t", "h", "e", " ", "c", "o", "v", "e", "r", " ", "p", "a", "g", "e", "?">>

QuestionPeriod ==
    <<"W", "h", "a", "t", " ", "i", "s", " ", "t", "h", "e", " ", "c", "o", "v", "e", "r", "a", "g", "e", " ", "p", "e", "r", "i", "o", "d", "?">>

QuestionCovered ==
    <<"W", "h", "a", "t", " ", "i", "s", " ", "c", "o", "v", "e", "r", "e", "d", "?">>

QuestionPremium ==
    <<"P", "r", "e", "m", "i", "u", "m", " ", "c", "o", "s", "t", "?">>

Questions == {QuestionColor, QuestionPeriod, QuestionCovered, QuestionPremium}

QueryTypes ==
    {"general", "duration", "coverage", "exclusions", "claims", "premium",
     "terms", "definitions"}

CoveredSurgery ==
    <<"C", "o", "v", "e", "r", "e", "d", ":", " ", "s", "u", "r", "g", "e", "r", "y">>

PolicyPeriod12 ==
    <<"P", "o", "l", "i", "c", "y", " ", "p", "e", "r", "i", "o", "d", ":", " ", "1", "2", " ", "m", "o", "n", "t", "h", "s">>

PremiumNotFound ==
    <<"P", "r", "e", "m", "i", "u", "m", " ", "i", "n", "f", "o", "r", "m", "a", "t", "i", "o", "n", " ", "n", "o", "t", " ", "f", "o", "u", "n", "d">>

InsuranceText ==
    <<"C", "o", "v", "e", "r", "a", "g", "e", "\n", "C", "o", "v", "e", "r", "e", "d", ":", " ", "s", "u", "r", "g", "e", "r", "y", "\n">>

GeneralText ==
    <<"B", "l", "u", "e", " ", "c", "o", "v", "e", "r", " ", "p", "a", "g", "e", "\n">>

ResumeLikeText ==
    <<"I", "n", "s", "u", "r", "a", "n", "c", "e", " ", "p", "o", "l", "i", "c", "y", " ", "c", "o", "v", "e", "r", "a", "g", "e", " ", "s", "u", "m", "m", "a", "r", "y", "\n", "C", "o", "v", "e", "r", "e", "d", ":", " ", "s", "u", "r", "g", "e", "r", "y", "\n">>

\* DocumentAnalyzer.analyze_document(InsuranceText)
InsuranceAnalysis ==
    [document_type |-> "Insurance Policy",
     policy_type |-> "Insurance Policy",
     coverage_details |-> <<CoveredSurgery>>,
     exclusions |-> <<>>,
     claims_process |-> <<>>,
     premium_info |-> PremiumNotFound,
     key_sections |-> <<"Coverage">>]

\* DocumentAnalyzer.analyze_document(GeneralText)
GeneralAnalysis ==
    [document_type |-> "General Document",
     key_topics |-> <<"cover">>,
     important_dates |-> <<>>,
     key_entities |-> <<>>,
     summary |-> <<"B", "l", "u", "e", " ", "c", "o", "v", "e", "r", " ", "p", "a", "g", "e">>,
     word_count |-> 3,
     estimated_pages |-> 0]

\* DocumentAnalyzer.analyze_document(ResumeLikeText)
ResumeAnalysis ==
    [document_type |-> "Resume/CV",
     candidate_name |-> "Name not found",
     email |-> "Email not found",
     phone |-> "Phone not found",
     skills |-> <<>>,
     experience |-> <<>>,
     education |-> <<>>,
     summary |-> CoveredSurgery,
     key_sections |-> <<"Summary">>]

\* a field map a client of /query sends
ClientAnalysis ==
    [document_type |-> "Insurance Policy",
     key_terms |-> <<PolicyPeriod12>>,
     coverage_details |-> <<CoveredSurgery>>]

\* a fetched document: its extracted text, with what the two analyzers
\* return for that text
Documents ==
    {[text |-> InsuranceText, detailed_analysis |-> InsuranceAnalysis,
      simple_document_type |-> "General Document"],
     [text |-> GeneralText, detailed_analysis |-> GeneralAnalysis,
      simple_document_type |-> "General Document"],
     [text |-> ResumeLikeText, detailed_analysis |-> ResumeAnalysis,
      simple_document_type |-> "Insurance Policy"],
     [text |-> <<>>, detailed_analysis |-> [error |-> "No text content found"],
      simple_document_type |-> "General Document"]}

\* both files present, the index holding no vector (the case line 188 tests;
\* create_vector_index itself cannot write it, since it raises on an empty
\* chunk list before it writes, so such a pair is put there by other means)
EmptyIndexStore == [exists |-> TRUE, ntotal |-> 0, chunks |-> <<>>]

\* the index files found under the filename of a /query request
QueryStores ==
    {NoStore, EmptyIndexStore,
     create_vector_index(split_document(InsuranceText, DefaultChunkSize)),
     create_vector_index(split_document(GeneralText, DefaultChunkSize))}

\* what the generation service does with a request: two replies, a
\* rate-limit error and another error
Replies ==
    {[raised |-> FALSE, msg |-> <<>>,
      content |-> <<" ", "B", "l", "u", "e", ".", "\n">>,
      usage |-> [prompt_tokens |-> 12, completion_tokens |-> 3, total_tokens |-> 15]],
     [raised |-> FALSE, msg |-> <<>>,
      content |-> <<"T", "h", "e", " ", "t", "e", "r", "m", " ", "i", "s", " ", "n", "o", "t", " ", "s", "t", "a", "t", "e", "d", ".">>,
      usage |-> [prompt_tokens |-> 20, completion_tokens |-> 5, total_tokens |-> 25]],
     [raised |-> TRUE, msg |-> MsgRateLimitPlease, content |-> <<>>,
      usage |-> [prompt_tokens |-> 0, completion_tokens |-> 0, total_tokens |-> 0]],
     [raised |-> TRUE, msg |-> MsgOther, content |-> <<>>,
      usage |-> [prompt_tokens |-> 0, completion_tokens |-> 0, total_tokens |-> 0]]}

\* request.get_json() of /query
QueryRequests ==
    {[query |-> query, document_text |-> text_file[1], filename |-> text_file[2],
      query_type |-> query_type, detailed_analysis |-> detailed_analysis] :
        query \in Questions \cup {<<>>},
        text_file \in {<<GeneralText, "policy.pdf">>, <<<<>>, "policy.pdf">>,
                       <<GeneralText, "">>},
        query_type \in QueryTypes,
        detailed_analysis \in {InsuranceAnalysis, GeneralAnalysis, <<>>,
                               ClientAnalysis}}

QuestionLists ==
    UNION {[1..n -> Questions] : n \in 0..MaxQuestions}

\* the Authorization header, the body of /hackrx/run and what fetching the
\* document url gives
HackrxRequests ==
    {[auth |-> auth, documents |-> documents, questions |-> questions,
      fetch_status |-> fetch_status, doc |-> doc] :
        auth \in {"missing", "wrong", "ok"},
        documents \in BOOLEAN,
        questions \in QuestionLists,
        fetch_status \in {200, 404},
        doc \in Documents}

InitRouter ==
    /\ router \in
          {[kind |-> "query", req |-> req, store |-> store,
            w |-> WrapperStart(DefaultMaxRetries, DefaultBaseDelay), log |-> <<>>] :
              req \in QueryRequests, store \in QueryStores}
          \cup
          {[kind |-> "hackrx", req |-> req, store |-> NoStore,
            w |-> WrapperStart(DefaultMaxRetries, DefaultBaseDelay), log |-> <<>>] :
              req \in HackrxRequests}
    /\ split = SplitIdle
    /\ retr = RetrIdle
    /\ retry = RetryIdle
    /\ disk = DiskIdle
    /\ analyzer = AnalyzerIdle
    /\ ingest = IngestIdle
    /\ front = FrontIdle
    /\ perplexity = PerplexityIdle
    /\ finder = FinderIdle

\* the wrapper state after func ran
WrapperAfter(w, outcome) ==
    IF outcome.raised THEN WrapperOnException(w, outcome.msg)
    ELSE WrapperOnReturn(w, outcome.value)

\* the request after one call of its handler: what the call did is logged
RouterAfter(r, ran, store) ==
    [r EXCEPT !.log = @ \o ran.events, !.store = store,
              !.w = WrapperAfter(@, ran.outcome)]

\* one call of process_query by the wrapper
QueryAttempt ==
    /\ router.kind = "query"
    /\ router.w.pc = "call"
    /\ router.w.attempt < router.w.max_retries
    /\ \E indices \in IndexSearch(router.store.ntotal, RetrievalTopK), reply \in Replies :
          router' = RouterAfter(router,
                                process_query(router.req, router.store, indices, reply,
                                              router.w.attempt),
                                router.store)
    /\ UNCHANGED <<split, retr, retry, disk, analyzer, ingest, front, perplexity, finder>>

\* the number of chunks the document of a /hackrx/run request is split into
RequestChunkCount(req) == Len(split_document(req.doc.text, DefaultChunkSize))

\* one call of hackrx_run by the wrapper
HackrxAttempt ==
    /\ router.kind = "hackrx"
    /\ router.w.pc = "call"
    /\ router.w.attempt < router.w.max_retries
    /\ \E indices \in [1..Len(router.req.questions) ->
                          IndexSearch(RequestChunkCount(router.req), RetrievalTopK)],
          replies \in [1..Len(router.req.questions) -> Replies] :
          LET call == hackrx_run(router.req, router.store, indices, replies,
                                 router.w.attempt)
          IN  router' = RouterAfter(router, call.ran, call.store)
    /\ UNCHANGED <<split, retr, retry, disk, analyzer, ingest, front, perplexity, finder>>

\* time.sleep returns in the wrapper of a handler
RouterWake ==
    /\ router.w.pc = "sleep"
    /\ router' = [router EXCEPT !.w = WrapperOnWake(@)]
    /\ UNCHANGED <<split, retr, retry, disk, analyzer, ingest, front, perplexity, finder>>

NextRouter == QueryAttempt \/ HackrxAttempt \/ RouterWake

SpecRouter == InitRouter /\ [][NextRouter]_vars

\* the events of router.log, by position
LogPositions == 1..Len(router.log)

\* event j was logged by the same handler call, for the same question, as i
SameQuestion(i, j) ==
    /\ router.log[j].attempt = router.log[i].attempt
    /\ router.log[j].qi = router.log[i].qi

\* the query type a handler passes on for its questions
HandlerQueryType ==
    IF router.kind = "query" THEN router.req.query_type ELSE "hackathon"

StructuredHit(i) ==
    router.log[i].op = "extract" /\ router.log[i].result # None

StructuredMiss(i) ==
    router.log[i].op = "extract" /\ router.log[i].result = None

\* C2: whenever try_structured_extraction returns an answer for a question,
\* the handler call logs nothing else for that question (neither retrieval
\* nor generation), /query returns at once the answer with input, output
\* and total token counters 0, and /hackrx/run puts the answer in its list.
C2_StructuredAnswerIsFree ==
    \A i \in LogPositions :
        StructuredHit(i) =>
            /\ \A j \in LogPositions : SameQuestion(i, j) => j = i
            /\ router.log[i].result[1].token_usage = ZeroUsage
            /\ router.kind = "query" =>
                  /\ router.w.pc = "returned"
                  /\ Len(router.w.calls) = router.log[i].attempt + 1
                  /\ router.w.result.status = 200
                  /\ DOMAIN router.w.result.body = {"answer", "token_usage"}
                  /\ router.w.result.body.answer = router.log[i].result[1].answer
                  /\ router.w.result.body.token_usage.input_tokens = 0
                  /\ router.w.result.body.token_usage.output_tokens = 0
                  /\ router.w.result.body.token_usage.total_tokens = 0
            /\ (router.kind = "hackrx" /\ router.w.result.status = 200) =>
                  router.w.result.body.answers[router.log[i].qi]
                      = router.log[i].result[1].answer

\* /query answered "What is covered?" from the field map of the policy
C2_Witness ==
    /\ router.kind = "query"
    /\ router.req.query = QuestionCovered
    /\ router.req.detailed_analysis = InsuranceAnalysis
    /\ router.w.pc = "returned"
    /\ Len(router.log) = 1
    /\ StructuredHit(1)
    /\ router.w.result.body.answer = CoveredSurgery

\* C3: whenever structured extraction yields no snippet, the handler call
\* next runs retrieval within the budget, then calls the generation client,
\* once for that question, with the question, the retrieved chunks joined by
\* newlines and the query type; /query returns what that call returned
\* (answer and token usage), /hackrx/run puts its answer in the list.
C3_FallbackRetrievesThenGenerates ==
    \A i \in LogPositions :
        StructuredMiss(i) =>
            /\ i + 2 <= Len(router.log)
            /\ router.log[i + 1].op = "retrieve"
            /\ SameQuestion(i, i + 1)
            /\ \E indices \in IndexSearch(router.store.ntotal, RetrievalTopK) :
                  router.log[i + 1].chunks
                      = retrieve_relevant_chunks(router.store, indices, RetrievalBudget)
            /\ router.log[i + 2].op = "generate"
            /\ SameQuestion(i, i + 2)
            /\ router.log[i + 2].question = router.log[i].question
            /\ router.log[i + 2].context = StrJoin(<<"\n">>, router.log[i + 1].chunks)
            /\ router.log[i + 2].query_type = HandlerQueryType
            /\ \A j \in LogPositions :
                  (SameQuestion(i, j) /\ router.log[j].op = "generate") => j = i + 2
            /\ (router.kind = "query" /\ ~router.log[i + 2].returned.raised) =>
                  /\ router.w.pc = "returned"
                  /\ Len(router.w.calls) = router.log[i].attempt + 1
                  /\ router.w.result = Response(200, router.log[i + 2].returned.value)
            /\ (router.kind = "hackrx" /\ ~router.log[i + 2].returned.raised
                    /\ router.w.result.status = 200) =>
                  router.w.result.body.answers[router.log[i].qi]
                      = router.log[i + 2].returned.value.answer

\* /query answered "What color is the cover page?" under the general hint by
\* retrieval and generation: a non-empty answer with total_tokens > 0
C3_Witness ==
    /\ router.kind = "query"
    /\ router.req.query = QuestionColor
    /\ router.req.query_type = "general"
    /\ router.req.detailed_analysis = InsuranceAnalysis
    /\ router.w.pc = "returned"
    /\ Len(router.log) = 3
    /\ StructuredMiss(1)
    /\ Len(router.log[2].chunks) > 1
    /\ router.w.result.status = 200
    /\ router.w.result.body.answer # <<>>
    /\ router.w.result.body.token_usage.total_tokens > 0

KnownCategories ==
    {"duration", "coverage", "exclusions", "claims", "premium", "terms", "definitions"}

\* C4: for a document of type Insurance Policy and a query type that names
\* a known category, try_structured_extraction reads the field(s) of that
\* category, whatever the question text.
C4_HintedCategoryConsulted ==
    \A i \in LogPositions :
        (/\ router.kind = "query"
         /\ router.log[i].op = "extract"
         /\ DocumentTypeOf(router.req.detailed_analysis) = "Insurance Policy"
         /\ router.req.query_type \in KnownCategories) =>
            BranchFields(router.req.query_type) \subseteq router.log[i].consulted

\* the outcome, as the wrapper saw it, of the handler call that logged event i
CallOutcome(i) == router.w.calls[router.log[i].attempt + 1]

GenerationFailed(i) ==
    router.log[i].op = "generate" /\ router.log[i].returned.raised

\* C9 for one failed generation call: a rate-limit failure reaches the
\* wrapper as a rate-limit error and, unless the attempt was the last, the
\* wrapper sleeps the backoff delay before the request is tried again; any
\* other failure reaches the caller with the message of the failure
FailureHandled(i) ==
    /\ Len(router.w.calls) > router.log[i].attempt
    /\ IF IsRateLimitError(router.log[i].returned.msg)
       THEN /\ CallOutcome(i).raised
            /\ IsRateLimitError(CallOutcome(i).msg)
            /\ router.log[i].attempt < router.w.max_retries - 1 =>
                  /\ Len(router.w.sleeps) > router.log[i].attempt
                  /\ router.w.sleeps[router.log[i].attempt + 1]
                        = BackoffDelay(router.w.base_delay, router.log[i].attempt,
                                       CallOutcome(i).msg)
       ELSE \/ /\ CallOutcome(i).raised
               /\ CallOutcome(i).msg = router.log[i].returned.msg
               /\ router.w.pc = "raised"
            \/ /\ ~CallOutcome(i).raised
               /\ router.w.pc = "returned"
               /\ router.w.result.status = 500
               /\ Contains(router.w.result.body.error, router.log[i].returned.msg)

\* C9: every failed generation call, of /query and of /hackrx/run alike, is
\* handled as above.
C9_GenerationFailuresReachWrapper ==
    \A i \in LogPositions : GenerationFailed(i) => FailureHandled(i)

\* the part of C9 that /query satisfies
QueryFailuresReachWrapper ==
    \A i \in LogPositions :
        (router.kind = "query" /\ GenerationFailed(i)) => FailureHandled(i)

\* /query was retried after a rate-limit failure of its generation call
QueryRetriedAfterRateLimit ==
    /\ router.kind = "query"
    /\ Len(router.w.calls) = 2
    /\ router.w.calls[1].raised
    /\ router.w.pc = "returned"

(***************************************************************************)
(* The vector store directory under concurrent ingestions and a reader     *)
(***************************************************************************)
MaxIngestions == 2
MaxClock == 1

Ingestions == 1..MaxIngestions

\* secure_filename(file.filename) of an upload, and "temp_doc.pdf" of
\* /hackrx/run (line 481)
IngestedNames == {"policy.pdf", "temp_doc.pdf"}

\* timestamp + "_" + name (lines 360-361 and 480-481): datetime.now() to the
\* second, so that a key is the pair of the clock second and the name
DocumentKey(timestamp, name) == <<timestamp, name>>

DocumentKeys == {DocumentKey(t, n) : t \in 0..MaxClock, n \in IngestedNames}

\* the lists split_document hands to create_vector_index
IngestedChunkLists == {<<>>, <<<<"a">>>>, <<<<"b">>, <<"c">>>>}

\* embedding_model.encode: the row of a chunk is determined by the chunk
Embed(chunk) == [embedding_of |-> chunk]

\* neither file of a key exists
NoFiles == [has_index |-> FALSE, index |-> <<>>, has_chunks |-> FALSE, chunks |-> <<>>]

\* lines 176-185: what retrieve_relevant_chunks loads for a key
LoadStore(files) ==
    IF ~files.has_index \/ ~files.has_chunks
    THEN [found |-> FALSE, index |-> <<>>, chunks |-> <<>>]
    ELSE [found |-> TRUE, index |-> files.index, chunks |-> files.chunks]

InitDisk ==
    /\ disk = [clock |-> 0,
               files |-> [k \in DocumentKeys |-> NoFiles],
               procs |-> [p \in Ingestions |->
                            [pc |-> "idle", key |-> DocumentKey(0, "policy.pdf"),
                             chunks |-> <<>>]],
               read |-> LoadStore(NoFiles)]
    /\ split = SplitIdle
    /\ retr = RetrIdle
    /\ retry = RetryIdle
    /\ router = RouterIdle
    /\ analyzer = AnalyzerIdle
    /\ ingest = IngestIdle
    /\ front = FrontIdle
    /\ perplexity = PerplexityIdle
    /\ finder = FinderIdle

\* the clock reaches the next second
Tick ==
    /\ disk.clock < MaxClock
    /\ disk' = [disk EXCEPT !.clock = @ + 1]
    /\ UNCHANGED <<split, retr, retry, router, analyzer, ingest, front, perplexity, finder>>

\* lines 359-366 (upload_file) or 480-487 (hackrx_run): the key is fixed from
\* the clock and the text is split
IngestStart(p) ==
    /\ disk.procs[p].pc = "idle"
    /\ \E name \in IngestedNames, chunks \in IngestedChunkLists :
          disk' = [disk EXCEPT !.procs[p] = [pc |-> "split",
                                             key |-> DocumentKey(disk.clock, name),
                                             chunks |-> chunks]]
    /\ UNCHANGED <<split, retr, retry, router, analyzer, ingest, front, perplexity, finder>>

\* line 161: embeddings.shape[1] raises for no chunk, nothing is written
IngestRaises(p) ==
    /\ disk.procs[p].pc = "split"
    /\ disk.procs[p].chunks = <<>>
    /\ disk' = [disk EXCEPT !.procs[p].pc = "raised"]
    /\ UNCHANGED <<split, retr, retry, router, analyzer, ingest, front, perplexity, finder>>

\* lines 158-167: faiss.write_index(index, vector_db_path)
IngestWriteIndex(p) ==
    /\ disk.procs[p].pc = "split"
    /\ disk.procs[p].chunks # <<>>
    /\ disk' = [disk EXCEPT
                  !.procs[p].pc = "index_written",
                  !.files[disk.procs[p].key].has_index = TRUE,
                  !.files[disk.procs[p].key].index =
                      [i \in 1..Len(disk.procs[p].chunks) |-> Embed(disk.procs[p].chunks[i])]]
    /\ UNCHANGED <<split, retr, retry, router, analyzer, ingest, front, perplexity, finder>>

\* lines 168-169: pickle.dump(chunks, f)
IngestWriteChunks(p) ==
    /\ disk.procs[p].pc = "index_written"
    /\ disk' = [disk EXCEPT
                  !.procs[p].pc = "done",
                  !.files[disk.procs[p].key].has_chunks = TRUE,
                  !.files[disk.procs[p].key].chunks = disk.procs[p].chunks]
    /\ UNCHANGED <<split, retr, retry, router, analyzer, ingest, front, perplexity, finder>>

\* the ingestion stops between the two writes (the worker is killed, or
\* open(chunks_path, 'wb') raises)
IngestStops(p) ==
    /\ disk.procs[p].pc = "index_written"
    /\ disk' = [disk EXCEPT !.procs[p].pc = "stopped"]
    /\ UNCHANGED <<split, retr, retry, router, analyzer, ingest, front, perplexity, finder>>

\* a request reads the two files of a key (lines 176-185)
ReadStore(k) ==
    /\ disk' = [disk EXCEPT !.read = LoadStore(disk.files[k])]
    /\ UNCHANGED <<split, retr, retry, router, analyzer, ingest, front, perplexity, finder>>

NextDisk ==
    \/ Tick
    \/ \E p \in Ingestions :
          \/ IngestStart(p)
          \/ IngestRaises(p)
          \/ IngestWriteIndex(p)
          \/ IngestWriteChunks(p)
          \/ IngestStops(p)
    \/ \E k \in DocumentKeys : ReadStore(k)

SpecDisk == InitDisk /\ [][NextDisk]_vars

\* C12: whatever a reader loads for a document key, the index and the chunk
\* list have the same number of entries and row i of the index is the
\* embedding of chunk i, also while an ingestion for the key is in progress
\* and after one stopped part-way.
C12_IndexMatchesChunkList ==
    disk.read.found =>
        /\ Len(disk.read.index) = Len(disk.read.chunks)
        /\ \A i \in 1..Len(disk.read.index) :
              disk.read.index[i] = Embed(disk.read.chunks[i])

\* ingestion p has fixed its key and has chunks to store
Ingesting(p) == disk.procs[p].pc \in {"split", "index_written", "done", "stopped"}

\* C13: no two ingestions, one after the other or concurrent, store under
\* the same document key.
C13_KeysNeverReused ==
    \A p, q \in Ingestions :
        (p # q /\ Ingesting(p) /\ Ingesting(q)) =>
            disk.procs[p].key # disk.procs[q].key

\* C13, second half: the two files of a key that an ingestion completed are
\* never written again.
C13_IndexedDocumentsImmutable ==
    [][\A k \in DocumentKeys :
          (\E p \in Ingestions : disk.procs[p].pc = "done" /\ disk.procs[p].key = k)
              => disk'.files[k] = disk.files[k]]_vars

\* two ingestions in different seconds stored under different keys
IngestionsInDifferentSeconds ==
    /\ disk.procs[1].pc = "done"
    /\ disk.procs[2].pc = "done"
    /\ disk.procs[1].key[2] = disk.procs[2].key[2]
    /\ disk.procs[1].key[1] # disk.procs[2].key[1]


(***************************************************************************)
(* DocumentAnalyzer (document_analyzer.py) and analyze_document_content    *)
(***************************************************************************)
\* the values self.document_type takes, in the order in which both
\* _detect_document_type (lines 38-56) and analyze_document (lines 23-29)
\* test them; "general_document" is the value of the final else
DocumentTypes == <<"resume", "insurance_policy", "legal_contract", "hr_document">>

\* the keyword list _detect_document_type holds for a type
DetectorKeywords(type) ==
    CASE type = "resume" ->
          {<<"r", "e", "s", "u", "m", "e">>,
           <<"c", "v">>,
           <<"c", "u", "r", "r", "i", "c", "u", "l", "u", "m", " ", "v", "i", "t", "a", "e">>,
           <<"e", "x", "p", "e", "r", "i", "e", "n", "c", "e">>,
           <<"s", "k", "i", "l", "l", "s">>,
           <<"e", "d", "u", "c", "a", "t", "i", "o", "n">>,
           <<"o", "b", "j", "e", "c", "t", "i", "v", "e">>,
           <<"s", "u", "m", "m", "a", "r", "y">>}
      [] type = "insurance_policy" ->
          {<<"i", "n", "s", "u", "r", "a", "n", "c", "e">>,
           <<"p", "o", "l", "i", "c", "y">>,
           <<"c", "o", "v", "e", "r", "a", "g", "e">>,
           <<"p", "r", "e", "m", "i", "u", "m">>,
           <<"c", "l", "a", "i", "m">>,
           <<"b", "e", "n", "e", "f", "i", "t", "s">>,
           <<"e", "x", "c", "l", "u", "s", "i", "o", "n", "s">>}
      [] type = "legal_contract" ->
          {<<"c", "o", "n", "t", "r", "a", "c", "t">>,
           <<"a", "g", "r", "e", "e", "m", "e", "n", "t">>,
           <<"t", "e", "r", "m", "s">>,
           <<"c", "o", "n", "d", "i", "t", "i", "o", "n", "s">>,
           <<"p", "a", "r", "t", "y">>,
           <<"o", "b", "l", "i", "g", "a", "t", "i", "o", "n", "s">>,
           <<"l", "i", "a", "b", "i", "l", "i", "t", "y">>}
      [] type = "hr_document" ->
          {<<"e", "m", "p", "l", "o", "y", "m", "e", "n", "t">>,
           <<"e", "m", "p", "l", "o", "y", "e", "e">>,
           <<"h", "r">>,
           <<"h", "u", "m", "a", "n", " ", "r", "e", "s", "o", "u", "r", "c", "e", "s">>,
           <<"j", "o", "b", " ", "d", "e", "s", "c", "r", "i", "p", "t", "i", "o", "n">>,
           <<"p", "o", "l", "i", "c", "y">>}

\* the first type one of whose keywords occurs in the lowered text
detect_document_type(text) ==
    LET text_lower == Lower(text)
        hits == {i \in 1..Len(DocumentTypes) :
                    AnyIn(DetectorKeywords(DocumentTypes[i]), text_lower)}
    IN  IF hits = {} THEN "general_document"
        ELSE DocumentTypes[CHOOSE i \in hits : \A j \in hits : i <= j]

RECURSIVE SplitLines(_)
\* text.split('\n'): the pieces between newlines, empty pieces kept
SplitLines(text) ==
    IF \A i \in 1..Len(text) : text[i] # "\n" THEN <<text>>
    ELSE LET i == CHOOSE i \in 1..Len(text) :
                      text[i] = "\n" /\ \A j \in 1..(i - 1) : text[j] # "\n"
         IN  <<SubSeq(text, 1, i - 1)>> \o SplitLines(SubSeq(text, i + 1, Len(text)))

RECURSIVE FindSectionLoop(_, _, _, _)
\* the loop of _find_section over the lines that remain: a line holding a
\* section name opens the section and is itself skipped; inside the section
\* a line of more than 2 characters is collected, and a shorter one ends the
\* loop once something has been collected
FindSectionLoop(lines, section_names, in_section, section_content) ==
    IF lines = <<>> THEN section_content
    ELSE IF AnyIn(section_names, Strip(Lower(lines[1])))
         THEN FindSectionLoop(Tail(lines), section_names, TRUE, section_content)
    ELSE IF ~in_section
         THEN FindSectionLoop(Tail(lines), section_names, FALSE, section_content)
    ELSE IF Len(Strip(lines[1])) > 2
         THEN FindSectionLoop(Tail(lines), section_names, TRUE,
                              Append(section_content, Strip(lines[1])))
    ELSE IF Len(section_content) > 0 THEN section_content
    ELSE FindSectionLoop(Tail(lines), section_names, TRUE, section_content)

NewLine == <<"\n">>

find_section(text, section_names) ==
    StrJoin(NewLine, FindSectionLoop(SplitLines(text), section_names, FALSE, <<>>))

\* the section names each extractor of the insurance branch looks for
SectionNames(field) ==
    CASE field = "coverage_details" ->
          {<<"c", "o", "v", "e", "r", "a", "g", "e">>,
           <<"b", "e", "n", "e", "f", "i", "t", "s">>,
           <<"w", "h", "a", "t", " ", "i", "s", " ", "c", "o", "v", "e", "r", "e", "d">>}
      [] field = "exclusions" ->
          {<<"e", "x", "c", "l", "u", "s", "i", "o", "n", "s">>,
           <<"w", "h", "a", "t", " ", "i", "s", " ", "n", "o", "t", " ", "c", "o", "v", "e", "r", "e", "d">>,
           <<"l", "i", "m", "i", "t", "a", "t", "i", "o", "n", "s">>}
      [] field = "claims_process" ->
          {<<"c", "l", "a", "i", "m", "s">>,
           <<"c", "l", "a", "i", "m", " ", "p", "r", "o", "c", "e", "s", "s">>,
           <<"f", "i", "l", "i", "n", "g", " ", "c", "l", "a", "i", "m", "s">>}
      [] field = "premium_info" ->
          {<<"p", "r", "e", "m", "i", "u", "m">>,
           <<"p", "a", "y", "m", "e", "n", "t">>,
           <<"c", "o", "s", "t">>}

RECURSIVE LongLines(_)
\* the stripped lines of more than 10 characters, in order
LongLines(lines) ==
    IF lines = <<>> THEN <<>>
    ELSE (IF Len(Strip(lines[1])) > 10 THEN <<Strip(lines[1])>> ELSE <<>>)
             \o LongLines(Tail(lines))

\* the body shared by _extract_coverage_details, _extract_exclusions and
\* _extract_claims_process, on the section _find_section returned
SectionEntries(section) ==
    IF section = <<>> THEN <<>> ELSE Prefix(LongLines(SplitLines(section)), 5)

extract_coverage_details(text) ==
    SectionEntries(find_section(text, SectionNames("coverage_details")))

extract_exclusions(text) ==
    SectionEntries(find_section(text, SectionNames("exclusions")))

extract_claims_process(text) ==
    SectionEntries(find_section(text, SectionNames("claims_process")))

PremiumSection(premium_section) ==
    IF premium_section = <<>> THEN PremiumNotFound
    ELSE IF Len(premium_section) > 200
         THEN Prefix(premium_section, 200) \o <<".", ".", ".">>
    ELSE premium_section

extract_premium_info(text) ==
    PremiumSection(find_section(text, SectionNames("premium_info")))

\* policy_types with policy_type.title() + " Insurance"
PolicyTypes ==
    <<[keyword |-> <<"h", "e", "a", "l", "t", "h">>, title |-> "Health Insurance"],
      [keyword |-> <<"l", "i", "f", "e">>, title |-> "Life Insurance"],
      [keyword |-> <<"a", "u", "t", "o">>, title |-> "Auto Insurance"],
      [keyword |-> <<"h", "o", "m", "e">>, title |-> "Home Insurance"],
      [keyword |-> <<"p", "r", "o", "p", "e", "r", "t", "y">>, title |-> "Property Insurance"],
      [keyword |-> <<"l", "i", "a", "b", "i", "l", "i", "t", "y">>, title |-> "Liability Insurance"]>>

\* section_keywords of _identify_policy_sections with keyword.title()
PolicySections ==
    <<[keyword |-> <<"c", "o", "v", "e", "r", "a", "g", "e">>, title |-> "Coverage"],
      [keyword |-> <<"e", "x", "c", "l", "u", "s", "i", "o", "n", "s">>, title |-> "Exclusions"],
      [keyword |-> <<"c", "l", "a", "i", "m", "s">>, title |-> "Claims"],
      [keyword |-> <<"p", "r", "e", "m", "i", "u", "m">>, title |-> "Premium"],
      [keyword |-> <<"t", "e", "r", "m", "s">>, title |-> "Terms"],
      [keyword |-> <<"c", "o", "n", "d", "i", "t", "i", "o", "n", "s">>, title |-> "Conditions"]>>

RECURSIVE TitlesIn(_, _)
\* the titles of the table entries whose keyword occurs, in table order
TitlesIn(table, text_lower) ==
    IF table = <<>> THEN <<>>
    ELSE (IF Contains(text_lower, table[1].keyword) THEN <<table[1].title>> ELSE <<>>)
             \o TitlesIn(Tail(table), text_lower)

FirstTitle(titles) == IF titles = <<>> THEN "Insurance Policy" ELSE titles[1]

extract_policy_type(text) == FirstTitle(TitlesIn(PolicyTypes, Lower(text)))

identify_policy_sections(text) == TitlesIn(PolicySections, Lower(text))

\* the insurance branch with a terms_conditions field beside its own
analyze_insurance_policy_with_terms(text) ==
    [document_type |-> "Insurance Policy",
     policy_type |-> extract_policy_type(text),
     coverage_details |-> extract_coverage_details(text),
     exclusions |-> extract_exclusions(text),
     claims_process |-> extract_claims_process(text),
     premium_info |-> extract_premium_info(text),
     terms_conditions |-> <<PolicyPeriod12>>,
     key_sections |-> identify_policy_sections(text)]

\* _analyze_insurance_policy
analyze_insurance_policy(text) ==
    [document_type |-> "Insurance Policy",
     policy_type |-> extract_policy_type(text),
     coverage_details |-> extract_coverage_details(text),
     exclusions |-> extract_exclusions(text),
     claims_process |-> extract_claims_process(text),
     premium_info |-> extract_premium_info(text),
     key_sections |-> identify_policy_sections(text)]

\* the "document_type" each of the other four branches puts in its result
BranchDocumentType(branch) ==
    CASE branch = "resume" -> "Resume/CV"
      [] branch = "legal_contract" -> "Legal Contract"
      [] branch = "hr_document" -> "HR Document"
      [] OTHER -> "General Document"

\* what the branch taken in analyze_document returns for the text.  The
\* insurance branch is computed field by field; each other branch is a pure
\* function of the text, kept as the branch's document_type and that text
AnalyzeAs(branch, text) ==
    IF branch = "insurance_policy" THEN analyze_insurance_policy(text)
    ELSE [document_type |-> BranchDocumentType(branch), extracted_from |-> text]

NoTextContent_empty_map == [document_type |-> "General Document"]

\* line 17
NoTextContent == [error |-> "No text content found"]

\* analyze_document run alone: strip, the empty test, detection, the branch
AnalyzeStripped(text) ==
    IF text = <<>> THEN NoTextContent
    ELSE AnalyzeAs(detect_document_type(text), text)

analyze_document(text) == AnalyzeStripped(Strip(text))

\* insurance_keywords of analyze_document_content (lines 111-115)
InsuranceKeywords ==
    {<<"i", "n", "s", "u", "r", "a", "n", "c", "e">>,
     <<"p", "o", "l", "i", "c", "y">>,
     <<"c", "o", "v", "e", "r", "a", "g", "e">>,
     <<"p", "r", "e", "m", "i", "u", "m">>,
     <<"s", "u", "m", " ", "i", "n", "s", "u", "r", "e", "d">>,
     <<"p", "o", "l", "i", "c", "y", " ", "p", "e", "r", "i", "o", "d">>,
     <<"p", "o", "l", "i", "c", "y", "h", "o", "l", "d", "e", "r">>,
     <<"i", "n", "s", "u", "r", "e", "d">>,
     <<"c", "l", "a", "i", "m">>,
     <<"e", "x", "c", "l", "u", "s", "i", "o", "n">>,
     <<"w", "a", "i", "t", "i", "n", "g", " ", "p", "e", "r", "i", "o", "d">>,
     <<"g", "r", "a", "c", "e", " ", "p", "e", "r", "i", "o", "d">>,
     <<"c", "u", "m", "u", "l", "a", "t", "i", "v", "e", " ", "b", "o", "n", "u", "s">>,
     <<"p", "o", "r", "t", "a", "b", "i", "l", "i", "t", "y">>,
     <<"r", "e", "n", "e", "w", "a", "l">>,
     <<"d", "e", "d", "u", "c", "t", "i", "b", "l", "e">>,
     <<"c", "o", "-", "p", "a", "y", "m", "e", "n", "t">>}

\* the document_type analyze_document_content gives (lines 108-128)
analyze_document_content(document_text) ==
    LET text_lower == Lower(document_text)
    IN  IF Cardinality({k \in InsuranceKeywords : Contains(text_lower, k)}) >= 3
        THEN "Insurance Policy"
        ELSE IF AnyIn({<<"c", "o", "n", "t", "r", "a", "c", "t">>,
                      <<"a", "g", "r", "e", "e", "m", "e", "n", "t">>,
                      <<"t", "e", "r", "m", "s">>,
                      <<"c", "o", "n", "d", "i", "t", "i", "o", "n", "s">>}, text_lower)
        THEN "Legal Contract"
        ELSE IF AnyIn({<<"e", "m", "p", "l", "o", "y", "m", "e", "n", "t">>,
                      <<"h", "r">>,
                      <<"h", "u", "m", "a", "n", " ", "r", "e", "s", "o", "u", "r", "c", "e", "s">>,
                      <<"e", "m", "p", "l", "o", "y", "e", "e">>}, text_lower)
        THEN "HR Document"
        ELSE IF AnyIn({<<"c", "o", "m", "p", "l", "i", "a", "n", "c", "e">>,
                      <<"r", "e", "g", "u", "l", "a", "t", "i", "o", "n">>,
                      <<"r", "e", "g", "u", "l", "a", "t", "o", "r", "y">>,
                      <<"l", "e", "g", "a", "l">>}, text_lower)
        THEN "Compliance Document"
        ELSE "General Document"


(***************************************************************************)
(* Requests running analyze_document on the shared DocumentAnalyzer        *)
(***************************************************************************)
\* the requests in flight at once (the server of app.run handles each
\* request in a thread of its own, all using the instance of app.py line 47)
MaxThreads == 2

Threads == 1..MaxThreads

\* "Skills: Python"
SkillsText ==
    <<"S", "k", "i", "l", "l", "s", ":", " ", "P", "y", "t", "h", "o", "n">>

\* "Terms of sale"
TermsText ==
    <<"T", "e", "r", "m", "s", " ", "o", "f", " ", "s", "a", "l", "e">>

\* "  \n"
BlankText == <<" ", " ", "\n">>

\* the texts the requests analyze: one for each branch but the hr one, an
\* empty one and a whitespace-only one
AnalyzerTexts == {SkillsText, InsuranceText, TermsText, GeneralText, BlankText, <<>>}

InitAnalyzer ==
    /\ \E texts \in [Threads -> AnalyzerTexts] :
          analyzer = [document_type |-> "None",
                      threads |-> [t \in Threads |->
                                      [pc |-> "called", text |-> texts[t],
                                       test |-> 0, result |-> <<>>]]]
    /\ split = SplitIdle
    /\ retr = RetrIdle
    /\ retry = RetryIdle
    /\ router = RouterIdle
    /\ disk = DiskIdle
    /\ ingest = IngestIdle
    /\ front = FrontIdle
    /\ perplexity = PerplexityIdle
    /\ finder = FinderIdle

\* lines 15-17: the stripped text is empty and the call returns the error
AnalyzeEmpty(t) ==
    /\ analyzer.threads[t].pc = "called"
    /\ Strip(analyzer.threads[t].text) = <<>>
    /\ analyzer' = [analyzer EXCEPT !.threads[t].pc = "done",
                                    !.threads[t].result = NoTextContent]
    /\ UNCHANGED <<split, retr, retry, router, disk, ingest, front, perplexity, finder>>

\* lines 15-20: the text is not empty; the detected type is stored in the
\* instance attribute
AnalyzeDetect(t) ==
    /\ analyzer.threads[t].pc = "called"
    /\ Strip(analyzer.threads[t].text) # <<>>
    /\ analyzer' = [analyzer EXCEPT
                       !.document_type = detect_document_type(Strip(analyzer.threads[t].text)),
                       !.threads[t].pc = "test",
                       !.threads[t].test = 1]
    /\ UNCHANGED <<split, retr, retry, router, disk, ingest, front, perplexity, finder>>

\* one test of the chain of lines 23-29 reads the instance attribute and
\* finds the type it tests: the branch runs on the thread's own text
AnalyzeBranch(t) ==
    /\ analyzer.threads[t].pc = "test"
    /\ analyzer.document_type = DocumentTypes[analyzer.threads[t].test]
    /\ analyzer' = [analyzer EXCEPT
                       !.threads[t].pc = "done",
                       !.threads[t].result =
                           AnalyzeAs(analyzer.document_type, Strip(analyzer.threads[t].text))]
    /\ UNCHANGED <<split, retr, retry, router, disk, ingest, front, perplexity, finder>>

\* the test reads another value: the chain goes on to its next test
AnalyzeNextTest(t) ==
    /\ analyzer.threads[t].pc = "test"
    /\ analyzer.document_type # DocumentTypes[analyzer.threads[t].test]
    /\ analyzer.threads[t].test < Len(DocumentTypes)
    /\ analyzer' = [analyzer EXCEPT !.threads[t].test = @ + 1]
    /\ UNCHANGED <<split, retr, retry, router, disk, ingest, front, perplexity, finder>>

\* lines 31-32: the last test fails too and the general branch runs
AnalyzeElse(t) ==
    /\ analyzer.threads[t].pc = "test"
    /\ analyzer.document_type # DocumentTypes[analyzer.threads[t].test]
    /\ analyzer.threads[t].test = Len(DocumentTypes)
    /\ analyzer' = [analyzer EXCEPT
                       !.threads[t].pc = "done",
                       !.threads[t].result =
                           AnalyzeAs("general_document", Strip(analyzer.threads[t].text))]
    /\ UNCHANGED <<split, retr, retry, router, disk, ingest, front, perplexity, finder>>

NextAnalyzer ==
    \E t \in Threads :
        \/ AnalyzeEmpty(t)
        \/ AnalyzeDetect(t)
        \/ AnalyzeBranch(t)
        \/ AnalyzeNextTest(t)
        \/ AnalyzeElse(t)

SpecAnalyzer == InitAnalyzer /\ [][NextAnalyzer]_vars

\* C14: a request that has returned from analyze_document holds the field
\* map analyze_document gives for its text when it runs alone, whatever the
\* other request did in between
C14_ResultDependsOnOwnTextOnly ==
    \A t \in Threads :
        analyzer.threads[t].pc = "done" =>
            analyzer.threads[t].result = analyze_document(analyzer.threads[t].text)

\* the text of request t is empty or holds whitespace only
WhitespaceOnly(t) ==
    \A i \in 1..Len(analyzer.threads[t].text) : IsSpace(analyzer.threads[t].text[i])

\* C19: analyze_document on an empty or whitespace-only text returns the
\* error result "No text content found" and nothing else (no document_type,
\* no field), and performs no detection: the call never stores a type nor
\* enters the chain of branches.
C19_EmptyTextGivesErrorResult ==
    /\ \A t \in Threads :
          (analyzer.threads[t].pc = "done" /\ WhitespaceOnly(t)) =>
              /\ analyzer.threads[t].result = [error |-> "No text content found"]
              /\ DOMAIN analyzer.threads[t].result = {"error"}
              /\ analyzer.threads[t].test = 0
    /\ (\A t \in Threads : WhitespaceOnly(t)) => analyzer.document_type = "None"

\* a request on "  \n" has returned, and so has one on ""
C19_Witness ==
    /\ analyzer.threads[1].text = BlankText
    /\ analyzer.threads[2].text = <<>>
    /\ \A t \in Threads :
          /\ analyzer.threads[t].pc = "done"
          /\ "error" \in DOMAIN analyzer.threads[t].result

\* both requests have returned, on texts of different types
BothAnalyzed ==
    /\ \A t \in Threads : analyzer.threads[t].pc = "done"
    /\ analyzer.threads[1].text = SkillsText
    /\ analyzer.threads[2].text = InsuranceText

\* while a single request is running (the other has not started or has
\* returned before this one started detection), the result is the one of
\* the call alone
AloneAnalyzed ==
    (analyzer.threads[1].pc = "done" /\ analyzer.threads[2].pc = "called") =>
        analyzer.threads[1].result = analyze_document(analyzer.threads[1].text)

\* the index of the request's document key is missing or holds no vector
NothingRetrievable == ~router.store.exists \/ router.store.ntotal = 0

\* C15: when no index exists for the document key, or it holds no vector,
\* a question without structured answer still gets its retrieval, which
\* returns the empty list (the call does not end in an exception there), and
\* the generation client is then called with the empty context.
C15_NothingRetrievableGeneratesOnEmptyContext ==
    \A i \in LogPositions :
        (StructuredMiss(i) /\ NothingRetrievable) =>
            /\ i + 2 <= Len(router.log)
            /\ router.log[i + 1].op = "retrieve"
            /\ router.log[i + 1].chunks = <<>>
            /\ router.log[i + 2].op = "generate"
            /\ SameQuestion(i, i + 2)
            /\ router.log[i + 2].context = <<>>

\* /query ran retrieval on an index of no vector and called the generation
\* client, which answered
C15_Witness ==
    /\ router.kind = "query"
    /\ router.store = EmptyIndexStore
    /\ router.w.pc = "returned"
    /\ \E i \in LogPositions :
          /\ router.log[i].op = "generate"
          /\ router.log[i].context = <<>>
          /\ ~router.log[i].returned.raised

\* the same with no index file at all under the filename
GeneratedWithoutIndexFiles ==
    /\ router.kind = "query"
    /\ router.store = NoStore
    /\ \E i \in LogPositions :
          router.log[i].op = "generate" /\ router.log[i].context = <<>>


(***************************************************************************)
(* A document from upload to query: upload_file, then process_query on the *)
(* document_info the upload returned                                       *)
(***************************************************************************)
\* the words a generated text is made of, at most MaxWords of them
MaxWords == 3

Vocabulary ==
    <<<<"c", "o", "v", "e", "r", "a", "g", "e">>,
      <<"i", "n", "s", "u", "r", "e", "d">>,
      <<"r", "e", "n", "e", "w", "a", "l">>,
      <<"d", "e", "d", "u", "c", "t", "i", "b", "l", "e">>,
      <<"s", "k", "i", "l", "l", "s">>,
      <<"b", "l", "u", "e">>>>

\* the words of Vocabulary at the positions picked, in its order
Picked(positions) ==
    LET sel == SelectSeq([i \in 1..Len(Vocabulary) |-> i], LAMBDA i : i \in positions)
    IN  [k \in 1..Len(sel) |-> Vocabulary[sel[k]]]

VocabularyTexts ==
    {StrJoin(<<" ">>, Picked(positions)) :
        positions \in {p \in SUBSET (1..Len(Vocabulary)) :
                          Cardinality(p) >= 1 /\ Cardinality(p) <= MaxWords}}

\* "This policy's coverage includes hospitalization. Exclusions: cosmetic
\* surgery. Claims: submit within 30 days."
HospitalizationText ==
    <<"T", "h", "i", "s", " ", "p", "o", "l", "i", "c", "y", "'", "s", " ",
      "c", "o", "v", "e", "r", "a", "g", "e", " ", "i", "n", "c", "l", "u",
      "d", "e", "s", " ", "h", "o", "s", "p", "i", "t", "a", "l", "i", "z",
      "a", "t", "i", "o", "n", ".", " ", "E", "x", "c", "l", "u", "s", "i",
      "o", "n", "s", ":", " ", "c", "o", "s", "m", "e", "t", "i", "c", " ",
      "s", "u", "r", "g", "e", "r", "y", ".", " ", "C", "l", "a", "i", "m",
      "s", ":", " ", "s", "u", "b", "m", "i", "t", " ", "w", "i", "t", "h",
      "i", "n", " ", "3", "0", " ", "d", "a", "y", "s", ".">>

\* the text process_document extracted from the uploaded file
IngestTexts ==
    VocabularyTexts
        \cup {InsuranceText, ResumeLikeText, GeneralText, HospitalizationText, BlankText}

\* document_info of lines 384-394 (its entries that a later request uses),
\* with the index files create_vector_index wrote
DocumentInfo(text, store, simple_document_type, detailed_analysis) ==
    [filename |-> "policy.pdf", text |-> text, store |-> store,
     analysis |-> [document_type |-> simple_document_type],
     detailed_analysis |-> OverrideDocumentType(detailed_analysis, simple_document_type)]

InitIngest ==
    /\ \E text \in IngestTexts :
          ingest = [pc |-> "start", text |-> text, document |-> <<>>]
    /\ router = RouterIdle
    /\ split = SplitIdle
    /\ retr = RetrIdle
    /\ retry = RetryIdle
    /\ disk = DiskIdle
    /\ analyzer = AnalyzerIdle
    /\ front = FrontIdle
    /\ perplexity = PerplexityIdle
    /\ finder = FinderIdle

\* upload_file, lines 365-367: the text has no word, split_document returns
\* no chunk and create_vector_index raises; the handler has no except clause
UploadRaises ==
    /\ ingest.pc = "start"
    /\ split_document(ingest.text, DefaultChunkSize) = <<>>
    /\ ingest' = [ingest EXCEPT !.pc = "upload_raised"]
    /\ UNCHANGED <<split, retr, retry, router, disk, analyzer, front, perplexity, finder>>

\* upload_file, lines 365-398: split, index, both analyses, the override
UploadFile ==
    /\ ingest.pc = "start"
    /\ split_document(ingest.text, DefaultChunkSize) # <<>>
    /\ ingest' = [ingest EXCEPT
                     !.pc = "uploaded",
                     !.document =
                         DocumentInfo(ingest.text,
                                      create_vector_index(
                                          split_document(ingest.text, DefaultChunkSize)),
                                      analyze_document_content(ingest.text),
                                      analyze_document(ingest.text))]
    /\ UNCHANGED <<split, retr, retry, router, disk, analyzer, front, perplexity, finder>>

\* the client posts a question to /query with the text, the filename and the
\* detailed_analysis of the document_info it received
SubmitQuery ==
    /\ ingest.pc = "uploaded"
    /\ \E query \in Questions, query_type \in QueryTypes :
          router' = [kind |-> "query",
                     req |-> [query |-> query,
                              document_text |-> ingest.document.text,
                              filename |-> ingest.document.filename,
                              query_type |-> query_type,
                              detailed_analysis |-> ingest.document.detailed_analysis],
                     store |-> ingest.document.store,
                     w |-> WrapperStart(DefaultMaxRetries, DefaultBaseDelay),
                     log |-> <<>>]
    /\ ingest' = [ingest EXCEPT !.pc = "queried"]
    /\ UNCHANGED <<split, retr, retry, disk, analyzer, front, perplexity, finder>>

NextIngest == UploadRaises \/ UploadFile \/ SubmitQuery \/ QueryAttempt \/ RouterWake

SpecIngest == InitIngest /\ [][NextIngest]_vars

\* the number of distinct keywords of insurance_keywords the text holds
InsuranceKeywordCount(text) ==
    Cardinality({k \in InsuranceKeywords : Contains(Lower(text), k)})

\* C16: the field map of an ingested text has document_type "Insurance
\* Policy" exactly when the text holds at least 3 distinct keywords of the
\* insurance keyword set.
C16_InsuranceIffThreeKeywords ==
    ingest.pc \in {"uploaded", "queried"} =>
        (DocumentTypeOf(ingest.document.detailed_analysis) = "Insurance Policy"
            <=> InsuranceKeywordCount(ingest.text) >= 3)

\* what does hold: the type of the field map is the one of the branch
\* _detect_document_type selects, but for the Resume/CV override
C16_TypeFollowsDetector ==
    ingest.pc \in {"uploaded", "queried"} =>
        DocumentTypeOf(ingest.document.detailed_analysis)
            = IF detect_document_type(Strip(ingest.text)) = "insurance_policy"
                 \/ (detect_document_type(Strip(ingest.text)) = "resume"
                        /\ InsuranceKeywordCount(ingest.text) >= 3)
              THEN "Insurance Policy"
              ELSE BranchDocumentType(detect_document_type(Strip(ingest.text)))

\* an uploaded text with one insurance keyword has an insurance field map
OneKeywordInsurance ==
    /\ ingest.pc = "uploaded"
    /\ InsuranceKeywordCount(ingest.text) = 1
    /\ DocumentTypeOf(ingest.document.detailed_analysis) = "Insurance Policy"

\* an uploaded text with three insurance keywords has a general field map
ThreeKeywordsGeneral ==
    /\ ingest.pc = "uploaded"
    /\ InsuranceKeywordCount(ingest.text) = 3
    /\ DocumentTypeOf(ingest.document.detailed_analysis) = "General Document"

\* the override of lines 377-379 has turned a Resume/CV map into an
\* insurance one
OverriddenUpload ==
    /\ ingest.pc = "uploaded"
    /\ detect_document_type(Strip(ingest.text)) = "resume"
    /\ DocumentTypeOf(ingest.document.detailed_analysis) = "Insurance Policy"


\* "hospitalization"
Hospitalization ==
    <<"h", "o", "s", "p", "i", "t", "a", "l", "i", "z", "a", "t", "i", "o", "n">>

\* the request in hand is a /query with query type "coverage" on the
\* uploaded text of the scenario
CoverageQueryOnScenario ==
    /\ ingest.pc = "queried"
    /\ ingest.text = HospitalizationText
    /\ router.req.query_type = "coverage"

\* C18: for the ingested scenario text and query type "coverage", the
\* generation client is never invoked, and the answer returned is a snippet
\* of the field map that contains "hospitalization", with zero token usage.
C18_ScenarioAnsweredWithoutGeneration ==
    CoverageQueryOnScenario =>
        /\ \A i \in LogPositions : router.log[i].op # "generate"
        /\ router.w.pc = "returned" =>
              /\ router.w.result.status = 200
              /\ Contains(Lower(router.w.result.body.answer), Hospitalization)
              /\ router.w.result.body.token_usage = ZeroUsage

\* the scenario text was uploaded: the coverage section of its field map
\* is empty, the whole text being one line
ScenarioHasNoCoverageDetails ==
    (ingest.pc = "uploaded" /\ ingest.text = HospitalizationText) =>
        /\ DocumentTypeOf(ingest.document.detailed_analysis) = "Insurance Policy"
        /\ ingest.document.detailed_analysis.coverage_details = <<>>

\* the scenario's coverage query was answered by the generation client
ScenarioAnsweredByGeneration ==
    /\ CoverageQueryOnScenario
    /\ router.w.pc = "returned"
    /\ \E i \in LogPositions :
          /\ router.log[i].op = "generate"
          /\ Contains(router.log[i].context, Hospitalization)

\* the same text with the heading on a line of its own does give the
\* structured answer: a field map made by the analyzer can answer
StructuredAnswerFromUpload ==
    /\ ingest.pc = "queried"
    /\ ingest.text = InsuranceText
    /\ router.w.pc = "returned"
    /\ Len(router.log) = 1
    /\ router.w.result.body.token_usage = ZeroUsage


(***************************************************************************)
(* Duration queries on field maps with duration-relevant sections          *)
(***************************************************************************)
\* the snippets a field map of this part holds in all, at most
MaxSnippets == 2

\* snippets with a duration keyword and digits followed by a unit:
\* "Policy period: 12 months", "Term: 2Years"
NumericDurationSnippets ==
    {PolicyPeriod12,
     <<"T", "e", "r", "m", ":", " ", "2", "Y", "e", "a", "r", "s">>}

\* snippets with a duration keyword and no numeric duration:
\* "Policy period", "Period 3"
KeywordOnlySnippets ==
    {<<"P", "o", "l", "i", "c", "y", " ", "p", "e", "r", "i", "o", "d">>,
     <<"P", "e", "r", "i", "o", "d", " ", "3">>}

\* snippets with no duration keyword: "Paid in 30 days", "Blue cover"
OtherSnippets ==
    {<<"P", "a", "i", "d", " ", "i", "n", " ", "3", "0", " ", "d", "a", "y", "s">>,
     <<"B", "l", "u", "e", " ", "c", "o", "v", "e", "r">>}

DurationSections == <<"key_terms", "terms_conditions", "definitions">>

\* a snippet put in a section, and the lists of up to MaxSnippets of those
Placements ==
    UNION {[1..n -> [section : {DurationSections[k] : k \in 1..Len(DurationSections)},
                     snippet : NumericDurationSnippets \cup KeywordOnlySnippets
                                   \cup OtherSnippets]] : n \in 0..MaxSnippets}

\* the snippets placed in a section, in the order of their placement
SectionList(placements, section) ==
    LET sel == SelectSeq(placements, LAMBDA p : p.section = section)
    IN  [k \in 1..Len(sel) |-> sel[k].snippet]

\* detailed_analysis of a /query request: an insurance field map with the
\* three sections the duration branch reads
DurationFieldMap(placements) ==
    [document_type |-> "Insurance Policy",
     key_terms |-> SectionList(placements, "key_terms"),
     terms_conditions |-> SectionList(placements, "terms_conditions"),
     definitions |-> SectionList(placements, "definitions")]

\* duration queries: by the hint, or by a keyword of the question
DurationQueries ==
    {[query |-> QuestionColor, query_type |-> "duration"],
     [query |-> QuestionPeriod, query_type |-> "general"]}

InitDuration ==
    /\ \E q \in DurationQueries, placements \in Placements :
          router = [kind |-> "query",
                    req |-> [query |-> q.query, document_text |-> GeneralText,
                             filename |-> "policy.pdf", query_type |-> q.query_type,
                             detailed_analysis |-> DurationFieldMap(placements)],
                    store |-> create_vector_index(split_document(GeneralText, DefaultChunkSize)),
                    w |-> WrapperStart(DefaultMaxRetries, DefaultBaseDelay),
                    log |-> <<>>]
    /\ split = SplitIdle
    /\ retr = RetrIdle
    /\ retry = RetryIdle
    /\ disk = DiskIdle
    /\ analyzer = AnalyzerIdle
    /\ ingest = IngestIdle
    /\ front = FrontIdle
    /\ perplexity = PerplexityIdle
    /\ finder = FinderIdle

NextDuration == QueryAttempt \/ RouterWake

SpecDuration == InitDuration /\ [][NextDuration]_vars

\* the snippets of the request's field map in the order of the sections
SnippetsInOrder ==
    router.req.detailed_analysis.key_terms
        \o router.req.detailed_analysis.terms_conditions
        \o router.req.detailed_analysis.definitions

\* the first snippet of the sequence that is in the set
FirstOf(snippets, set) ==
    snippets[CHOOSE i \in 1..Len(snippets) :
                 snippets[i] \in set /\ \A j \in 1..(i - 1) : snippets[j] \notin set]

Holds(snippets, set) == \E i \in 1..Len(snippets) : snippets[i] \in set

\* C17: on a duration query, try_structured_extraction returns the (first)
\* snippet with a keyword and a numeric duration if the sections hold one,
\* wherever it stands; else the first snippet with a keyword; else nothing.
C17_NumericDurationPreferred ==
    \A i \in LogPositions :
        router.log[i].op = "extract" =>
            router.log[i].result =
                IF Holds(SnippetsInOrder, NumericDurationSnippets)
                THEN <<[answer |-> FirstOf(SnippetsInOrder, NumericDurationSnippets),
                        token_usage |-> ZeroUsage]>>
                ELSE IF Holds(SnippetsInOrder, KeywordOnlySnippets)
                THEN <<[answer |-> FirstOf(SnippetsInOrder, KeywordOnlySnippets),
                        token_usage |-> ZeroUsage]>>
                ELSE <<>>

\* a keyword-only snippet stands in key_terms and a numeric one in
\* definitions, and the numeric one was returned by /query
C17_Witness ==
    /\ Len(router.req.detailed_analysis.key_terms) = 1
    /\ router.req.detailed_analysis.key_terms[1] \in KeywordOnlySnippets
    /\ Len(router.req.detailed_analysis.definitions) = 1
    /\ router.req.detailed_analysis.definitions[1] \in NumericDurationSnippets
    /\ router.w.pc = "returned"
    /\ router.w.result.body.answer = router.req.detailed_analysis.definitions[1]

\* only keyword-only snippets: the first one was the answer
KeywordOnlyAnswered ==
    /\ Len(router.req.detailed_analysis.terms_conditions) = 2
    /\ \A k \in 1..2 : router.req.detailed_analysis.terms_conditions[k] \in KeywordOnlySnippets
    /\ router.req.detailed_analysis.terms_conditions[1]
          # router.req.detailed_analysis.terms_conditions[2]
    /\ router.w.pc = "returned"
    /\ router.w.result.body.answer = router.req.detailed_analysis.terms_conditions[1]

\* a numeric duration without keyword: no structured answer, generation ran
NoKeywordGenerated ==
    /\ Len(SnippetsInOrder) = 2
    /\ \A k \in 1..2 : SnippetsInOrder[k] \in OtherSnippets
    /\ \E i \in LogPositions : router.log[i].op = "generate"


(***************************************************************************)
(* The query-type suggestion of query_document                             *)
(***************************************************************************)
\* what suggest_query_type gives for the questions of the requests, found
\* by reading the patterns: no pattern matches the first question, and
\* r'\bcoverage\b', r'\bcovered\b', r'\bpremium\b' match the others
ExpectedSuggestion(question) ==
    CASE question = QuestionColor -> "none"
      [] question = QuestionPeriod -> "coverage"
      [] question = QuestionCovered -> "coverage"
      [] question = QuestionPremium -> "premium"

\* event i is a call of the generation client that returned a dictionary
Generated(i) == router.log[i].op = "generate" /\ ~router.log[i].returned.raised

\* the suggestion applies to the call of event i
Suggested(i) ==
    router.log[i].query_type = "general" /\ ExpectedSuggestion(router.log[i].question) # "none"

\* the dictionary query_document builds for a reply when nothing is suggested
Unsuggested(reply, query_type) ==
    ResponseDict(Strip(reply.content), reply.usage, query_type, "none")

\* the replies the service gives when it answers
Answers == {reply \in Replies : ~reply.raised}

\* what the suggestion leaves alone: the template sent is the one of the
\* hint, the hint is reported as used, the token usage is the service's,
\* generation ran because extraction (with the hint, not the suggestion)
\* found nothing, and a structured answer is returned as it is
SuggestionFrame(i, reply) ==
    /\ router.log[i].request.system = get_system_prompt(router.log[i].query_type)
    /\ router.log[i].returned.value.query_type_used = router.log[i].query_type
    /\ router.log[i].returned.value.token_usage
          = Unsuggested(reply, router.log[i].query_type).token_usage
    /\ i >= 3
    /\ StructuredMiss(i - 2)
    /\ SameQuestion(i - 2, i)

\* C20 (amended): the suggestion is made exactly when the hint is "general"
\* and a pattern matches the question; it then appends the note to the
\* answer, adds the suggested_query_type entry and appends " (suggested:
\* <type>)" to debug_info, and changes nothing else: neither the template
\* sent, nor the hint reported as used, nor the token usage, nor which path
\* answers.
C20_SuggestionAddsNoteEntryAndDebugSuffix ==
    /\ \A i \in LogPositions :
          Generated(i) =>
              \E reply \in Answers :
                  /\ SuggestionFrame(i, reply)
                  /\ IF Suggested(i)
                     THEN router.log[i].returned.value
                            = [Unsuggested(reply, "general") EXCEPT
                                  !.answer = @ \o SuggestionNote(
                                                     ExpectedSuggestion(router.log[i].question)),
                                  !.debug_info = DebugInfo("general",
                                                     ExpectedSuggestion(router.log[i].question))]
                              @@ [suggested_query_type |->
                                     ExpectedSuggestion(router.log[i].question)]
                     ELSE router.log[i].returned.value
                            = Unsuggested(reply, router.log[i].query_type)
    /\ \A i \in LogPositions :
          (StructuredHit(i) /\ router.kind = "query" /\ router.w.pc = "returned") =>
              router.w.result.body = router.log[i].result[1]

\* C20 as stated: but for the note on the answer and the
\* suggested_query_type entry, the dictionary is the one built when nothing
\* is suggested.
C20_SuggestionOnlyAddsNoteAndEntry ==
    \A i \in LogPositions :
        Generated(i) =>
            \E reply \in Answers :
                /\ SuggestionFrame(i, reply)
                /\ DOMAIN router.log[i].returned.value
                      = DOMAIN Unsuggested(reply, router.log[i].query_type)
                            \cup (IF Suggested(i) THEN {"suggested_query_type"} ELSE {})
                /\ \A k \in DOMAIN Unsuggested(reply, router.log[i].query_type) \ {"answer"} :
                      router.log[i].returned.value[k]
                          = Unsuggested(reply, router.log[i].query_type)[k]
                /\ router.log[i].returned.value.answer
                      = Unsuggested(reply, router.log[i].query_type).answer
                            \o (IF Suggested(i)
                                THEN SuggestionNote(ExpectedSuggestion(router.log[i].question))
                                ELSE <<>>)

\* /query answered "What is the coverage period?" under the general hint
\* through generation, and the answer carries the suggestion "coverage"
C20_Witness ==
    /\ router.kind = "query"
    /\ router.req.query = QuestionPeriod
    /\ router.req.query_type = "general"
    /\ router.w.pc = "returned"
    /\ router.w.result.status = 200
    /\ "suggested_query_type" \in DOMAIN router.w.result.body
    /\ router.w.result.body.suggested_query_type = "coverage"

\* "What is covered?" under the general hint was answered from the field
\* map: the question matches a pattern, yet nothing is suggested
SuggestibleAnsweredStructured ==
    /\ router.kind = "query"
    /\ router.req.query = QuestionCovered
    /\ router.req.query_type = "general"
    /\ router.w.pc = "returned"
    /\ Len(router.log) = 1
    /\ StructuredHit(1)

\* a hint other than "general" on a question a pattern matches: no suggestion
HintedNotSuggested ==
    /\ router.kind = "query"
    /\ router.req.query = QuestionCovered
    /\ router.req.query_type = "premium"
    /\ router.w.pc = "returned"
    /\ \E i \in LogPositions : Generated(i)
    /\ "suggested_query_type" \notin DOMAIN router.w.result.body


(***************************************************************************)
(* The system template of a generation request                             *)
(***************************************************************************)
\* the template the statement names for a hint, hint by hint
TemplateOfHint(hint) ==
    CASE hint = "general" -> "general"
      [] hint = "coverage" -> "coverage"
      [] hint = "exclusions" -> "exclusions"
      [] hint = "claims" -> "claims"
      [] hint = "premium" -> "premium"
      [] hint = "duration" -> "duration"
      [] hint = "terms" -> "terms"
      [] hint = "definitions" -> "definitions"
      [] OTHER -> "general"

\* C21: the system template of every generation request is the template of
\* the hint when the hint is one of the eight known ones, and the general
\* template for any other hint (/hackrx/run passes "hackathon").
C21_TemplateOfHintOrGeneral ==
    \A i \in LogPositions :
        router.log[i].op = "generate" =>
            router.log[i].request.system = TemplateOfHint(router.log[i].query_type)

\* /hackrx/run called the generation client under its hint "hackathon", with
\* the general template
C21_Witness ==
    /\ router.kind = "hackrx"
    /\ \E i \in LogPositions :
          /\ router.log[i].op = "generate"
          /\ router.log[i].query_type = "hackathon"
          /\ router.log[i].request.system = "general"

\* a generation request of /query under the definitions hint
HintedTemplateSent ==
    /\ router.kind = "query"
    /\ router.req.query_type = "definitions"
    /\ \E i \in LogPositions :
          router.log[i].op = "generate" /\ router.log[i].request.system = "definitions"


(***************************************************************************)
(* The endpoints /query, /analyze and /upload from the request on          *)
(***************************************************************************)
\* how request.get_json() treats a request whose content type is not
\* application/json, which depends on the Flask the program runs on (the
\* repository pins none): it returns None, or raises 400 Bad Request, or
\* raises 415 Unsupported Media Type
FlaskBuilds == {"returns_none", "bad_request", "unsupported_media_type"}

\* a request without any body
NoBody == [kind |-> "none"]

\* a JSON body; a key that is absent reads as its default in data.get
JsonBody(data) == [kind |-> "json", data |-> data]

\* a multipart body: with or without the part named 'file'
FormBody(file_part, filename, text) ==
    [kind |-> "form", file_part |-> file_part, filename |-> filename, text |-> text]

\* "policy.pdf", "notes.exe"
UploadNames ==
    {<<>>,
     <<"p", "o", "l", "i", "c", "y", ".", "p", "d", "f">>,
     <<"n", "o", "t", "e", "s", ".", "e", "x", "e">>}

\* the requests received
FrontRequests ==
    {[endpoint |-> "query", body |-> body] :
        body \in {NoBody} \cup
                 {JsonBody(r) : r \in {q \in QueryRequests :
                                          /\ q.query_type \in {"general", "coverage"}
                                          /\ q.detailed_analysis = InsuranceAnalysis}}}
    \cup
    {[endpoint |-> "analyze", body |-> body] :
        body \in {NoBody} \cup
                 {JsonBody([document_text |-> t]) :
                      t \in {<<>>, BlankText, InsuranceText, ResumeLikeText}}}
    \cup
    {[endpoint |-> "upload", body |-> body] :
        body \in {NoBody, FormBody(FALSE, <<>>, <<>>)} \cup
                 {FormBody(TRUE, n, t) : n \in UploadNames, t \in {InsuranceText, BlankText}}}

\* ALLOWED_EXTENSIONS
AllowedExtensions ==
    {<<"p", "d", "f">>, <<"d", "o", "c", "x">>, <<"t", "x", "t">>, <<"d", "o", "c">>}

\* allowed_file: the name has a point and what follows its last point,
\* lowered, is an allowed extension
allowed_file(filename) ==
    /\ \E i \in 1..Len(filename) : filename[i] = "."
    /\ LET last == CHOOSE i \in 1..Len(filename) :
                       filename[i] = "." /\ \A j \in (i + 1)..Len(filename) : filename[j] # "."
       IN  Lower(SubSeq(filename, last + 1, Len(filename))) \in AllowedExtensions

\* the response to a request whose handler ended in request.get_json() or in
\* data.get on None: the framework's answer, not a dictionary of the handler
FrameworkResponse(build) ==
    CASE build = "returns_none" -> Response(500, [raised |-> "AttributeError"])
      [] build = "bad_request" -> Response(400, [raised |-> "BadRequest"])
      [] build = "unsupported_media_type" -> Response(415, [raised |-> "UnsupportedMediaType"])

InitFront ==
    /\ \E request \in FrontRequests, build \in FlaskBuilds :
          front = [pc |-> "received", endpoint |-> request.endpoint, body |-> request.body,
                   build |-> build, response |-> <<>>]
    /\ router = RouterIdle
    /\ ingest = IngestIdle
    /\ split = SplitIdle
    /\ retr = RetrIdle
    /\ retry = RetryIdle
    /\ disk = DiskIdle
    /\ analyzer = AnalyzerIdle
    /\ perplexity = PerplexityIdle
    /\ finder = FinderIdle

\* process_query line 407, analyze_document line 437: the request has no
\* JSON body, so get_json raises, or returns None and data.get raises; the
\* retry wrapper of /query raises such an error again at once
GetJsonFails ==
    /\ front.pc = "received"
    /\ front.endpoint \in {"query", "analyze"}
    /\ front.body.kind = "none"
    /\ front' = [front EXCEPT !.pc = "answered", !.response = FrameworkResponse(front.build)]
    /\ UNCHANGED <<split, retr, retry, router, disk, analyzer, ingest, perplexity, finder>>

\* /query with a JSON body: the wrapper starts calling process_query
FrontQuery ==
    /\ front.pc = "received"
    /\ front.endpoint = "query"
    /\ front.body.kind = "json"
    /\ \E store \in {NoStore, create_vector_index(split_document(GeneralText, DefaultChunkSize))} :
          router' = [kind |-> "query", req |-> front.body.data, store |-> store,
                     w |-> WrapperStart(DefaultMaxRetries, DefaultBaseDelay), log |-> <<>>]
    /\ front' = [front EXCEPT !.pc = "routed"]
    /\ UNCHANGED <<split, retr, retry, disk, analyzer, ingest, perplexity, finder>>

\* /analyze with a JSON body, lines 437-455
FrontAnalyze ==
    /\ front.pc = "received"
    /\ front.endpoint = "analyze"
    /\ front.body.kind = "json"
    /\ front' = [front EXCEPT
                    !.pc = "answered",
                    !.response =
                        IF front.body.data.document_text = <<>>
                        THEN Response(400, [error |-> "No document text provided"])
                        ELSE Response(200,
                                 [simple_analysis |->
                                      [document_type |->
                                          analyze_document_content(front.body.data.document_text)],
                                  detailed_analysis |->
                                      OverrideDocumentType(
                                          analyze_document(front.body.data.document_text),
                                          analyze_document_content(front.body.data.document_text))])]
    /\ UNCHANGED <<split, retr, retry, router, disk, analyzer, ingest, perplexity, finder>>

\* upload_file lines 351-356 and 402: no part named 'file' (request.files is
\* empty for a request without body too), an empty filename, or a type that
\* is not allowed
UploadRejected ==
    /\ front.pc = "received"
    /\ front.endpoint = "upload"
    /\ \/ /\ IF front.body.kind = "none" THEN TRUE ELSE ~front.body.file_part
          /\ front' = [front EXCEPT !.pc = "answered",
                                    !.response = Response(400, [error |-> "No file provided"])]
       \/ /\ front.body.kind = "form" /\ front.body.file_part
          /\ front.body.filename = <<>>
          /\ front' = [front EXCEPT !.pc = "answered",
                                    !.response = Response(400, [error |-> "No file selected"])]
       \/ /\ front.body.kind = "form" /\ front.body.file_part
          /\ front.body.filename # <<>>
          /\ ~allowed_file(front.body.filename)
          /\ front' = [front EXCEPT !.pc = "answered",
                                    !.response = Response(400, [error |-> "Invalid file type"])]
    /\ UNCHANGED <<split, retr, retry, router, disk, analyzer, ingest, perplexity, finder>>

\* upload_file lines 358-365: the file is saved and its text extracted
UploadAccepted ==
    /\ front.pc = "received"
    /\ front.endpoint = "upload"
    /\ front.body.kind = "form" /\ front.body.file_part
    /\ front.body.filename # <<>>
    /\ allowed_file(front.body.filename)
    /\ ingest' = [pc |-> "start", text |-> front.body.text, document |-> <<>>]
    /\ front' = [front EXCEPT !.pc = "saved"]
    /\ UNCHANGED <<split, retr, retry, router, disk, analyzer, perplexity, finder>>

NextFront ==
    \/ GetJsonFails
    \/ FrontQuery
    \/ FrontAnalyze
    \/ UploadRejected
    \/ UploadAccepted
    \/ QueryAttempt
    \/ RouterWake
    \/ UploadFile
    \/ UploadRaises

SpecFront == InitFront /\ [][NextFront]_vars

\* the request carries no query (/query), no document text (/analyze) or no
\* file part (/upload); a request without body carries none of them
CarriesNothing ==
    \/ front.body.kind = "none"
    \/ front.endpoint = "query" /\ front.body.kind = "json" /\ front.body.data.query = <<>>
    \/ front.endpoint = "analyze" /\ front.body.kind = "json"
          /\ front.body.data.document_text = <<>>
    \/ front.endpoint = "upload" /\ front.body.kind = "form" /\ ~front.body.file_part

\* the error message of the endpoint for a request that carries nothing
NothingMessage ==
    CASE front.endpoint = "query" -> "No query provided"
      [] front.endpoint = "analyze" -> "No document text provided"
      [] front.endpoint = "upload" -> "No file provided"

\* the request has its response: that of the handler, or that of the handler
\* returned through the retry wrapper
FrontAnswered ==
    \/ front.pc = "answered"
    \/ front.pc = "routed" /\ router.w.pc = "returned"

FrontResponse == IF front.pc = "routed" THEN router.w.result ELSE front.response

\* the response has status 400 and the error message msg
Rejected(response, msg) ==
    /\ response.status = 400
    /\ "error" \in DOMAIN response.body
    /\ response.body.error = msg

\* nothing was saved or indexed, extracted, retrieved or generated
NothingDone == router.log = <<>> /\ ingest = IngestIdle

\* C22: a request that carries no query, no document text or no file part,
\* a request without body included, is answered with status 400 and the
\* message of its endpoint, and nothing is done for it.
C22_EmptyRequestsRejected ==
    CarriesNothing =>
        /\ NothingDone
        /\ front.pc = "routed" => router.w.pc # "raised"
        /\ FrontAnswered => Rejected(FrontResponse, NothingMessage)

\* what holds: the same for the requests that do have a body
C22_EmptyFieldsRejected ==
    (CarriesNothing /\ (front.body.kind # "none" \/ front.endpoint = "upload")) =>
        /\ NothingDone
        /\ front.pc = "routed" => router.w.pc # "raised"
        /\ FrontAnswered => Rejected(FrontResponse, NothingMessage)

\* a request without body never gets the message of /query or /analyze
NoBodyNeverGetsMessage ==
    (front.body.kind = "none" /\ front.endpoint # "upload" /\ FrontAnswered) =>
        "error" \notin DOMAIN FrontResponse.body

\* /query with a JSON body without query was answered 400
EmptyQueryRejected ==
    /\ front.endpoint = "query"
    /\ CarriesNothing
    /\ FrontAnswered
    /\ Rejected(FrontResponse, "No query provided")

\* /upload without body was answered 400
EmptyUploadRejected ==
    /\ front.endpoint = "upload"
    /\ front.body.kind = "none"
    /\ FrontAnswered
    /\ Rejected(FrontResponse, "No file provided")


(***************************************************************************)
(* PerplexityAPI.query_document                                            *)
(***************************************************************************)
\* values of a decoded JSON body: a dictionary, a list, a string, null
PyDict(d) == [t |-> "dict", d |-> d]

PyList(l) == [t |-> "list", l |-> l]

PyStr(s) == [t |-> "str", s |-> s]

PyNone == [t |-> "none"]

\* an exception of the class kind
RaisedKind(kind) == [raised |-> TRUE, kind |-> kind]

\* value[key] for a string key: KeyError on a dictionary without the key,
\* TypeError on a list, on a string and on None
GetItemKey(value, key) ==
    IF value.t = "dict"
    THEN IF key \in DOMAIN value.d THEN ReturnedValue(value.d[key]) ELSE RaisedKind("KeyError")
    ELSE RaisedKind("TypeError")

\* value[0]: IndexError on an empty list or string, KeyError on a
\* dictionary (whose keys are strings), TypeError on None
GetItemZero(value) ==
    CASE value.t = "list" ->
             IF value.l # <<>> THEN ReturnedValue(value.l[1]) ELSE RaisedKind("IndexError")
      [] value.t = "str" ->
             IF value.s # <<>> THEN ReturnedValue(PyStr(<<value.s[1]>>)) ELSE RaisedKind("IndexError")
      [] value.t = "dict" -> RaisedKind("KeyError")
      [] value.t = "none" -> RaisedKind("TypeError")

\* 'section:', 'clause:', 'article:', 'paragraph:'
ClauseKeywords ==
    {<<"s", "e", "c", "t", "i", "o", "n", ":">>,
     <<"c", "l", "a", "u", "s", "e", ":">>,
     <<"a", "r", "t", "i", "c", "l", "e", ":">>,
     <<"p", "a", "r", "a", "g", "r", "a", "p", "h", ":">>}

\* line.split(':', 1) of a line that holds a colon: what precedes the first
\* colon and what follows it
SplitAtColon(line) ==
    LET at == CHOOSE i \in 1..Len(line) : line[i] = ":" /\ \A j \in 1..(i - 1) : line[j] # ":"
    IN  <<SubSeq(line, 1, at - 1), SubSeq(line, at + 1, Len(line))>>

\* the loop of _parse_llm_response over the lines
ClausesOf(lines) ==
    LET entry(line) == [section |-> Strip(SplitAtColon(line)[1]),
                        clause |-> Strip(SplitAtColon(line)[2])]
        kept == SelectSeq(lines, LAMBDA line :
                    /\ AnyIn(ClauseKeywords, Lower(line))
                    /\ Strip(SplitAtColon(line)[2]) # <<>>)
    IN  [i \in 1..Len(kept) |-> entry(kept[i])]

\* _parse_llm_response, its entries 'answer' and 'clauses' (the confidence
\* score and the explanation are left out): content.split raises when the
\* content is no string, and the handler answers without clauses
parse_llm_response(content) ==
    IF content.t = "str"
    THEN [answer |-> content, clauses |-> Prefix(ClausesOf(SplitLines(content.s)), 5)]
    ELSE [answer |-> content, clauses |-> <<>>]

\* _handle_general_error without its 'clauses' entry
handle_general_error_without_clauses(kind) ==
    [error |-> "General Error", cause |-> kind,
     answer |-> "An unexpected error occurred during processing."]

\* _handle_general_error
handle_general_error(kind) ==
    [error |-> "General Error", cause |-> kind,
     answer |-> "An unexpected error occurred during processing.", clauses |-> <<>>]

\* _handle_request_error
handle_request_error(kind) ==
    [error |-> "Request Error", cause |-> kind, answer |-> "Unable to connect to the API service.", clauses |-> <<>>]

\* _handle_api_error
handle_api_error(status_code) ==
    [error |-> "API Error", status_code |-> status_code, answer |-> "Unable to process query due to API error.",
     clauses |-> <<>>]

\* _get_mock_response: the answer depends on the query type, the clauses
\* are the three mock clauses
get_mock_response(query, query_type) ==
    [answer |-> [mock |-> IF query_type \in {"coverage", "exclusions", "claims", "legal"}
                          THEN query_type ELSE "general",
                 query |-> query],
     clauses |-> <<"Policy Coverage", "Exclusions", "Claims Process">>,
     query |-> query, model_used |-> "mock-model"]

\* response_data['choices'][0]['message']['content']
ContentOf(response_data) ==
    LET choices == GetItemKey(response_data, "choices")
        first == IF choices.raised THEN choices ELSE GetItemZero(choices.value)
        message == IF first.raised THEN first ELSE GetItemKey(first.value, "message")
    IN  IF message.raised THEN message ELSE GetItemKey(message.value, "content")

\* _process_api_response: the handler of KeyError and IndexError reads the
\* local content, which has no value when the subscripts raised, so it
\* raises UnboundLocalError itself; another error leaves the function as is
process_api_response(response_data, query) ==
    LET content == ContentOf(response_data)
    IN  IF ~content.raised
        THEN ReturnedValue(
                 [answer |-> parse_llm_response(content.value).answer,
                  clauses |-> parse_llm_response(content.value).clauses,
                  query |-> query,
                  model_used |-> IF "model" \in DOMAIN response_data.d
                                 THEN response_data.d.model ELSE "sonar-medium-online"])
        ELSE IF content.kind \in {"KeyError", "IndexError"}
             THEN RaisedKind("UnboundLocalError")
             ELSE content

\* the exception of response.json() on a body that is no JSON is a
\* RequestException in the newer releases of requests and a plain ValueError
\* in the older ones; the repository pins no release
RequestsBuilds == {"json_error_is_request_exception", "json_error_is_value_error"}

\* a well-formed body with the content c
WellFormed(c) ==
    PyDict([choices |-> PyList(<<PyDict([message |-> PyDict([content |-> c])])>>),
            model |-> "sonar"])

\* "Section: covered\nfine", "Clause:", "fine"
ReplyContents ==
    {PyStr(<<"S", "e", "c", "t", "i", "o", "n", ":", " ", "c", "o", "v", "e", "r", "e", "d", "\n", "f", "i", "n", "e">>),
     PyStr(<<"C", "l", "a", "u", "s", "e", ":">>),
     PyStr(<<"f", "i", "n", "e">>)}

\* the bodies a reply of status 200 may carry; "text" is a body that is no
\* JSON
ReplyBodies ==
    {[json |-> FALSE]} \cup
    {[json |-> TRUE, data |-> d] :
        d \in {WellFormed(c) : c \in ReplyContents \cup {PyNone}} \cup
              {PyDict([model |-> "sonar"]),
               PyDict([choices |-> PyList(<<>>)]),
               PyDict([choices |-> PyNone]),
               PyDict([choices |-> PyList(<<PyNone>>)]),
               PyDict([choices |-> PyList(<<PyDict([text |-> PyNone])>>)]),
               PyDict([choices |-> PyList(<<PyDict([message |-> PyDict([role |-> PyNone])])>>)]),
               PyDict([choices |-> PyDict([message |-> PyNone])]),
               PyList(<<>>),
               PyNone}}

\* what requests.post comes to: an exception of the transport, or a response
PostOutcomes ==
    {[kind |-> "network_error"]} \cup
    {[kind |-> "response", status_code |-> s, body |-> [json |-> FALSE]] : s \in {401, 429, 500}} \cup
    {[kind |-> "response", status_code |-> 200, body |-> b] : b \in ReplyBodies}

PerplexityQueryTypes == {"general", "coverage", "legal"}

InitPerplexity ==
    /\ \E api_key \in BOOLEAN, query \in {QuestionCovered, <<>>},
          query_type \in PerplexityQueryTypes, text \in {PyStr(InsuranceText), PyNone},
          build \in RequestsBuilds :
          perplexity = [pc |-> "called", api_key |-> api_key, query |-> query,
                        query_type |-> query_type, document_text |-> text, build |-> build,
                        post |-> <<>>, result |-> <<>>]
    /\ split = SplitIdle
    /\ retr = RetrIdle
    /\ retry = RetryIdle
    /\ router = RouterIdle
    /\ disk = DiskIdle
    /\ analyzer = AnalyzerIdle
    /\ ingest = IngestIdle
    /\ front = FrontIdle
    /\ finder = FinderIdle

\* lines 34-35: without a key the mock reply is returned
QueryMock ==
    /\ perplexity.pc = "called"
    /\ ~perplexity.api_key
    /\ perplexity' = [perplexity EXCEPT
                         !.pc = "returned",
                         !.result = ReturnedValue(get_mock_response(perplexity.query,
                                                                    perplexity.query_type))]
    /\ UNCHANGED <<split, retr, retry, router, disk, analyzer, ingest, front, finder>>

\* line 39: document_text[:8000] raises on a text that is no string, and the
\* last handler answers
QueryPromptRaises ==
    /\ perplexity.pc = "called"
    /\ perplexity.api_key
    /\ perplexity.document_text.t # "str"
    /\ perplexity' = [perplexity EXCEPT
                         !.pc = "returned",
                         !.result = ReturnedValue(handle_general_error("TypeError"))]
    /\ UNCHANGED <<split, retr, retry, router, disk, analyzer, ingest, front, finder>>

\* lines 39-63: the prompt and the payload are built and posted
QueryPost ==
    /\ perplexity.pc = "called"
    /\ perplexity.api_key
    /\ perplexity.document_text.t = "str"
    /\ \E post \in PostOutcomes :
          perplexity' = [perplexity EXCEPT !.pc = "posted", !.post = post]
    /\ UNCHANGED <<split, retr, retry, router, disk, analyzer, ingest, front, finder>>

\* lines 70-71: requests.post raised
QueryRequestError ==
    /\ perplexity.pc = "posted"
    /\ perplexity.post.kind = "network_error"
    /\ perplexity' = [perplexity EXCEPT
                         !.pc = "returned",
                         !.result = ReturnedValue(handle_request_error("ConnectionError"))]
    /\ UNCHANGED <<split, retr, retry, router, disk, analyzer, ingest, front, finder>>

\* lines 67-68: a status other than 200
QueryApiError ==
    /\ perplexity.pc = "posted"
    /\ perplexity.post.kind = "response"
    /\ perplexity.post.status_code # 200
    /\ perplexity' = [perplexity EXCEPT
                         !.pc = "returned",
                         !.result = ReturnedValue(handle_api_error(perplexity.post.status_code))]
    /\ UNCHANGED <<split, retr, retry, router, disk, analyzer, ingest, front, finder>>

\* lines 65-66 and 70-73: status 200; response.json() and
\* _process_api_response run inside the try, whose handlers answer for
\* every exception
QueryProcess ==
    /\ perplexity.pc = "posted"
    /\ perplexity.post.kind = "response"
    /\ perplexity.post.status_code = 200
    /\ LET processed == IF perplexity.post.body.json
                        THEN process_api_response(perplexity.post.body.data, perplexity.query)
                        ELSE RaisedKind("JSONDecodeError")
           result ==
               IF ~processed.raised
               THEN processed.value
               ELSE IF /\ processed.kind = "JSONDecodeError"
                       /\ perplexity.build = "json_error_is_request_exception"
                    THEN handle_request_error(processed.kind)
                    ELSE handle_general_error(processed.kind)
       IN  perplexity' = [perplexity EXCEPT !.pc = "returned",
                                            !.result = ReturnedValue(result)]
    /\ UNCHANGED <<split, retr, retry, router, disk, analyzer, ingest, front, finder>>

NextPerplexity ==
    \/ QueryMock
    \/ QueryPromptRaises
    \/ QueryPost
    \/ QueryRequestError
    \/ QueryApiError
    \/ QueryProcess

SpecPerplexity == InitPerplexity /\ [][NextPerplexity]_vars

\* C23: query_document raises nothing to its caller; for every outcome it
\* returns a dictionary that has an 'answer' entry and a 'clauses' entry.
C23_AlwaysAnswerAndClauses ==
    perplexity.pc = "returned" =>
        /\ ~perplexity.result.raised
        /\ {"answer", "clauses"} \subseteq DOMAIN perplexity.result.value

\* the outcome of a returned call
Outcome(kind) ==
    /\ perplexity.pc = "returned"
    /\ CASE kind = "mock" -> ~perplexity.api_key
         [] kind = "network" -> perplexity.api_key /\ perplexity.post # <<>>
                                  /\ perplexity.post.kind = "network_error"
         [] kind = "status" -> perplexity.api_key /\ perplexity.post # <<>>
                                  /\ perplexity.post.kind = "response"
                                  /\ perplexity.post.status_code # 200
         [] kind = "malformed" -> perplexity.api_key /\ perplexity.post # <<>>
                                  /\ perplexity.post.kind = "response"
                                  /\ perplexity.post.status_code = 200
                                  /\ "error" \in DOMAIN perplexity.result.value
         [] kind = "well_formed" -> perplexity.api_key /\ perplexity.post # <<>>
                                  /\ perplexity.post.kind = "response"
                                  /\ perplexity.post.status_code = 200
                                  /\ "error" \notin DOMAIN perplexity.result.value

\* a malformed body of status 200 was answered by the last handler
C23_Witness ==
    /\ Outcome("malformed")
    /\ perplexity.result.value.error = "General Error"
    /\ perplexity.result.value.cause = "UnboundLocalError"

MockReturned == Outcome("mock")

NetworkErrorReturned == Outcome("network")

StatusErrorReturned == Outcome("status")

\* a well-formed body whose content names a clause
ClauseReturned ==
    /\ Outcome("well_formed")
    /\ perplexity.result.value.clauses # <<>>

\* the handler for parsing errors never answers
ParsingHandlerIsDead ==
    perplexity.pc = "returned" =>
        ("error" \in DOMAIN perplexity.result.value
            => perplexity.result.value.error # "Parsing Error")


(***************************************************************************)
(* The shape of the retrieved context                                      *)
(***************************************************************************)
\* the chunks the loop reads, in the order of the labels of the search
Visited ==
    LET rows == SelectSeq(retr.indices, LAMBDA idx : idx < Len(retr.store.chunks))
    IN  [p \in 1..Len(rows) |-> PyIndex(retr.store.chunks, rows[p])]

RECURSIVE TokensOfFirst(_, _)
\* the estimated tokens of the first k of the chunks
TokensOfFirst(chunks, k) ==
    IF k = 0 THEN 0 ELSE TokensOfFirst(chunks, k - 1) + estimate_tokens(chunks[k])

\* the positions of the chunks whose inclusion would exceed the budget
Exceeding ==
    {k \in 1..Len(Visited) : TokensOfFirst(Visited, k) > retr.max_tokens}

\* the first of them
FirstExceeding == CHOOSE k \in Exceeding : \A j \in Exceeding : k <= j

\* the first exceeding chunk cut to (remaining tokens * 4) characters
CutChunk ==
    Prefix(Visited[FirstExceeding],
           (retr.max_tokens - TokensOfFirst(Visited, FirstExceeding - 1)) * 4)

\* C24: the result is the chunks in ranked order up to the first one whose
\* inclusion would exceed the budget; that one is cut to (remaining tokens
\* * 4) characters and included only if the cut is not empty; no chunk
\* ranked after it is included.
C24_WholeRunThenOneTruncated ==
    (retr.pc = "done" /\ retr.store.exists /\ retr.store.ntotal > 0) =>
        IF Exceeding = {}
        THEN retr.result = Visited
        ELSE retr.result = SubSeq(Visited, 1, FirstExceeding - 1)
                              \o (IF CutChunk # <<>> THEN <<CutChunk>> ELSE <<>>)

\* a truncated chunk follows a whole one, and a ranked chunk is left out
C24_Witness ==
    /\ retr.pc = "done" /\ retr.store.exists /\ retr.store.ntotal > 0
    /\ Exceeding # {}
    /\ FirstExceeding = 2
    /\ Len(Visited) = 3
    /\ Len(retr.result) = 2
    /\ retr.result[2] # Visited[2]
    /\ retr.top_k <= retr.store.ntotal

\* the exceeding chunk is left out when nothing of the budget remains
ExceedingChunkDropped ==
    /\ retr.pc = "done" /\ retr.store.exists /\ retr.store.ntotal > 0
    /\ Exceeding # {}
    /\ CutChunk = <<>>
    /\ Len(retr.result) = FirstExceeding - 1


\* the rows of the index that the search ranked: its labels other than -1
RankedRows == {retr.indices[p] : p \in 1..Len(retr.indices)} \ {-1}

\* s is the chunk c or a prefix of it
IsPrefixOf(s, c) == Len(s) <= Len(c) /\ s = SubSeq(c, 1, Len(s))

\* every element is a ranked chunk or a prefix of one, each ranked chunk
\* serving for one element at most
FromDistinctRankedChunks(result) ==
    \E f \in [1..Len(result) -> RankedRows] :
        /\ \A i, j \in 1..Len(result) : i # j => f[i] # f[j]
        /\ \A i \in 1..Len(result) : IsPrefixOf(result[i], retr.store.chunks[f[i] + 1])

\* C29: every element returned is a chunk, or a prefix of a chunk, that the
\* search ranked; no chunk appears more than once and at most top_k
\* elements are returned, also when the index holds fewer than top_k rows.
C29_RankedChunksOnceEach ==
    (retr.pc = "done" /\ retr.store.exists /\ retr.store.ntotal > 0) =>
        /\ FromDistinctRankedChunks(retr.result)
        /\ Len(retr.result) <= retr.top_k

\* the same for the searches that found top_k rows
RankedOnceWhenEnoughRows ==
    (retr.pc = "done" /\ retr.store.exists /\ retr.store.ntotal >= retr.top_k) =>
        /\ FromDistinctRankedChunks(retr.result)
        /\ Len(retr.result) <= retr.top_k

\* never more than top_k elements
AtMostTopK == retr.pc = "done" => Len(retr.result) <= retr.top_k

\* the last chunk was returned once for its row and once more for every
\* label -1
LastChunkRepeated ==
    /\ retr.pc = "done"
    /\ retr.store.ntotal = 1
    /\ retr.top_k = 3
    /\ retr.result = <<retr.store.chunks[1], retr.store.chunks[1], retr.store.chunks[1]>>


(***************************************************************************)
(* _find_section on its own                                                *)
(***************************************************************************)
MaxLines == 4

\* "Coverage", "EXCLUSIONS:", "", "ok", "Dental care", "Full coverage of
\* surgery", "  Eye care  "
SectionLines ==
    {<<"C", "o", "v", "e", "r", "a", "g", "e">>,
     <<"E", "X", "C", "L", "U", "S", "I", "O", "N", "S", ":">>,
     <<>>,
     <<"o", "k">>,
     <<"D", "e", "n", "t", "a", "l", " ", "c", "a", "r", "e">>,
     <<"F", "u", "l", "l", " ", "c", "o", "v", "e", "r", "a", "g", "e", " ", "o", "f", " ", "s", "u", "r", "g", "e", "r", "y">>,
     <<" ", " ", "E", "y", "e", " ", "c", "a", "r", "e", " ", " ">>}

SectionTexts == UNION {[1..n -> SectionLines] : n \in 1..MaxLines}

InitFinder ==
    /\ \E lines \in SectionTexts, field \in {"coverage_details", "exclusions"} :
          finder = [pc |-> "called", lines |-> lines, field |-> field, result |-> <<>>]
    /\ split = SplitIdle
    /\ retr = RetrIdle
    /\ retry = RetryIdle
    /\ router = RouterIdle
    /\ disk = DiskIdle
    /\ analyzer = AnalyzerIdle
    /\ ingest = IngestIdle
    /\ front = FrontIdle
    /\ perplexity = PerplexityIdle

\* one call of _find_section on the text of the lines
FindSection ==
    /\ finder.pc = "called"
    /\ finder' = [finder EXCEPT
                     !.pc = "returned",
                     !.result = find_section(StrJoin(NewLine, finder.lines),
                                             SectionNames(finder.field))]
    /\ UNCHANGED <<split, retr, retry, router, disk, analyzer, ingest, front, perplexity>>

NextFinder == FindSection

SpecFinder == InitFinder /\ [][NextFinder]_vars

\* the line holds one of the section names, whatever the case
IsHeader(line, section_names) == AnyIn(section_names, Lower(line))

\* the positions of the lines that hold a section name
Headers == {i \in 1..Len(finder.lines) : IsHeader(finder.lines[i], SectionNames(finder.field))}

FirstHeader == CHOOSE i \in Headers : \A j \in Headers : i <= j

\* the positions of the blank lines after the first header
BlanksAfterHeader == {i \in (FirstHeader + 1)..Len(finder.lines) : Strip(finder.lines[i]) = <<>>}

\* the position where the section ends: the first blank line after the
\* header, or past the last line
SectionEnd ==
    IF BlanksAfterHeader = {} THEN Len(finder.lines) + 1
    ELSE CHOOSE i \in BlanksAfterHeader : \A j \in BlanksAfterHeader : i <= j

\* the lines between the first header and the end of the section whose
\* stripped length exceeds 2, stripped, in order
SectionBody ==
    LET body == SubSeq(finder.lines, FirstHeader + 1, SectionEnd - 1)
        kept == SelectSeq(body, LAMBDA line : Len(Strip(line)) > 2)
    IN  [i \in 1..Len(kept) |-> Strip(kept[i])]

\* C25: _find_section returns, in order, exactly the lines that follow the
\* first line holding a section name and whose stripped length exceeds 2,
\* up to the first blank line after the header or the end of the text.
C25_SectionIsLinesAfterHeader ==
    finder.pc = "returned" =>
        finder.result = (IF Headers = {} THEN <<>> ELSE StrJoin(NewLine, SectionBody))

\* the texts in which the header is the only line holding a section name
\* and every line after it is blank or longer than 2 characters, the line
\* right after the header not being blank
PlainSection ==
    /\ Headers # {}
    /\ Headers = {FirstHeader}
    /\ \A i \in (FirstHeader + 1)..Len(finder.lines) :
          Strip(finder.lines[i]) = <<>> \/ Len(Strip(finder.lines[i])) > 2
    /\ FirstHeader < Len(finder.lines) => Strip(finder.lines[FirstHeader + 1]) # <<>>

\* on those texts the statement holds
PlainSectionAsStated ==
    (finder.pc = "returned" /\ (Headers = {} \/ PlainSection)) =>
        finder.result = (IF Headers = {} THEN <<>> ELSE StrJoin(NewLine, SectionBody))

\* a line of the section that holds the section name itself was left out
NamedLineLeftOut ==
    /\ finder.pc = "returned"
    /\ finder.field = "coverage_details"
    /\ finder.lines = <<<<"C", "o", "v", "e", "r", "a", "g", "e">>,
                        <<"F", "u", "l", "l", " ", "c", "o", "v", "e", "r", "a", "g", "e", " ", "o", "f", " ", "s", "u", "r", "g", "e", "r", "y">>,
                        <<"D", "e", "n", "t", "a", "l", " ", "c", "a", "r", "e">>>>
    /\ finder.result = <<"D", "e", "n", "t", "a", "l", " ", "c", "a", "r", "e">>

\* a section was returned as stated
SectionReturned ==
    /\ finder.pc = "returned"
    /\ PlainSection
    /\ Len(SectionBody) = 2
    /\ finder.result = StrJoin(NewLine, SectionBody)


(***************************************************************************)
(* Premium questions on a document without premium section                 *)
(***************************************************************************)
\* the request in hand is a premium question (by its hint or its words) on
\* an uploaded Insurance Policy document whose text has no premium section
PremiumQuestionWithoutSection ==
    /\ ingest.pc = "queried"
    /\ DocumentTypeOf(ingest.document.detailed_analysis) = "Insurance Policy"
    /\ find_section(ingest.text, SectionNames("premium_info")) = <<>>
    /\ SelectedBranch(router.req.query, router.req.query_type) = "premium"

\* the call of process_query has ended
QueryEnded == router.w.pc \in {"returned", "raised"}

\* C26: a premium question on an Insurance Policy document whose text has
\* no premium section is a structured miss: no structured answer is
\* returned, and the router goes on to retrieval and generation.
C26_NoPremiumSectionIsStructuredMiss ==
    (PremiumQuestionWithoutSection /\ QueryEnded) =>
        /\ \E i \in LogPositions : router.log[i].op = "retrieve"
        /\ \E i \in LogPositions : router.log[i].op = "generate"
        /\ \A i \in LogPositions : router.log[i].op = "extract" => router.log[i].result = None

\* the same for the documents whose field map came from the resume branch
\* and was overridden: their map has no premium_info at all
OverriddenPremiumIsMiss ==
    (/\ PremiumQuestionWithoutSection
     /\ QueryEnded
     /\ detect_document_type(Strip(ingest.text)) = "resume") =>
        /\ \E i \in LogPositions : router.log[i].op = "retrieve"
        /\ \A i \in LogPositions : router.log[i].op = "extract" => router.log[i].result = None

\* the analyzer's placeholder was returned as the structured answer
PlaceholderAnswered ==
    /\ PremiumQuestionWithoutSection
    /\ router.w.pc = "returned"
    /\ Len(router.log) = 1
    /\ router.w.result.body.answer = PremiumNotFound
    /\ router.w.result.body.token_usage = ZeroUsage

\* every insurance field map the analyzer makes has a premium_info that is
\* not empty and holds "premium"
PremiumInfoNeverEmpty ==
    (ingest.pc = "uploaded" /\ detect_document_type(Strip(ingest.text)) = "insurance_policy") =>
        PremiumBranch(ingest.document.detailed_analysis) # None

\* an overridden map was asked a premium question and retrieval ran
OverriddenPremiumRetrieved ==
    /\ PremiumQuestionWithoutSection
    /\ QueryEnded
    /\ detect_document_type(Strip(ingest.text)) = "resume"
    /\ \E i \in LogPositions : router.log[i].op = "retrieve"


(***************************************************************************)
(* The fields of a field map of type Insurance Policy                      *)
(***************************************************************************)
InsuranceFields == {"coverage_details", "exclusions", "claims_process", "premium_info"}

\* C27: a field map that ingestion hands on with document_type "Insurance
\* Policy", the overridden ones included, has the insurance fields
\* coverage_details, exclusions, claims_process and premium_info.
C27_InsuranceMapHasInsuranceFields ==
    (/\ ingest.pc \in {"uploaded", "queried"}
     /\ DocumentTypeOf(ingest.document.detailed_analysis) = "Insurance Policy") =>
        InsuranceFields \subseteq DOMAIN ingest.document.detailed_analysis

\* the same for the maps that the insurance branch of the analyzer made
InsuranceBranchHasInsuranceFields ==
    (/\ ingest.pc \in {"uploaded", "queried"}
     /\ DocumentTypeOf(ingest.document.detailed_analysis) = "Insurance Policy"
     /\ detect_document_type(Strip(ingest.text)) = "insurance_policy") =>
        InsuranceFields \subseteq DOMAIN ingest.document.detailed_analysis

\* an overridden map has none of the insurance fields
OverriddenLacksInsuranceFields ==
    /\ ingest.pc = "uploaded"
    /\ detect_document_type(Strip(ingest.text)) = "resume"
    /\ DocumentTypeOf(ingest.document.detailed_analysis) = "Insurance Policy"
    /\ InsuranceFields \cap DOMAIN ingest.document.detailed_analysis = {}

\* a map of the insurance branch was handed on
InsuranceBranchUploaded ==
    /\ ingest.pc = "uploaded"
    /\ detect_document_type(Strip(ingest.text)) = "insurance_policy"
    /\ InsuranceFields \subseteq DOMAIN ingest.document.detailed_analysis

\* /analyze answers with the same override
AnalyzeOverriddenLacksFields ==
    /\ front.pc = "answered"
    /\ front.endpoint = "analyze"
    /\ front.response.status = 200
    /\ DocumentTypeOf(front.response.body.detailed_analysis) = "Insurance Policy"
    /\ InsuranceFields \cap DOMAIN front.response.body.detailed_analysis = {}


(***************************************************************************)
(* Duration, terms and definitions questions on the analyzer's field maps  *)
(***************************************************************************)
UnservedCategories == {"duration", "terms", "definitions"}

\* C28: for every field map analyze_document produced, overridden or not, a
\* question routed to the duration, terms or definitions category gets no
\* structured answer: try_structured_extraction returns None and the router
\* goes on to retrieval and generation.
C28_UnservedCategoriesAlwaysFallThrough ==
    /\ ingest.pc = "uploaded" =>
          \A query \in Questions, query_type \in QueryTypes :
              SelectedBranch(query, query_type) \in UnservedCategories =>
                  try_structured_extraction(
                      query, ingest.document.detailed_analysis,
                      DocumentTypeOf(ingest.document.detailed_analysis), query_type) = None
    /\ (/\ ingest.pc = "queried"
        /\ SelectedBranch(router.req.query, router.req.query_type) \in UnservedCategories
        /\ QueryEnded) =>
          /\ \A i \in LogPositions :
                router.log[i].op = "extract" => router.log[i].result = None
          /\ \E i \in LogPositions : router.log[i].op = "retrieve"
          /\ \E i \in LogPositions : router.log[i].op = "generate"

\* a duration question on a field map of the insurance branch was answered
\* by generation
C28_Witness ==
    /\ ingest.pc = "queried"
    /\ detect_document_type(Strip(ingest.text)) = "insurance_policy"
    /\ DocumentTypeOf(ingest.document.detailed_analysis) = "Insurance Policy"
    /\ SelectedBranch(router.req.query, router.req.query_type) = "duration"
    /\ router.w.pc = "returned"
    /\ Len(router.log) = 3
    /\ router.log[1].op = "extract" /\ router.log[1].result = None
    /\ router.log[3].op = "generate"

\* a definitions question on an overridden field map fell through as well
OverriddenDefinitionsFellThrough ==
    /\ ingest.pc = "queried"
    /\ detect_document_type(Strip(ingest.text)) = "resume"
    /\ DocumentTypeOf(ingest.document.detailed_analysis) = "Insurance Policy"
    /\ SelectedBranch(router.req.query, router.req.query_type) = "definitions"
    /\ router.w.pc = "returned"
    /\ \E i \in LogPositions : router.log[i].op = "generate"

\* a terms question fell through
TermsFellThrough ==
    /\ ingest.pc = "queried"
    /\ DocumentTypeOf(ingest.document.detailed_analysis) = "Insurance Policy"
    /\ SelectedBranch(router.req.query, router.req.query_type) = "terms"
    /\ router.w.pc = "returned"
    /\ \E i \in LogPositions : router.log[i].op = "generate"


(***************************************************************************)
(* The answers of /hackrx/run                                              *)
(***************************************************************************)
\* the handler of the /hackrx/run request has returned its response
HackrxAnswered == router.kind = "hackrx" /\ router.w.pc = "returned"

\* the request succeeded
HackrxSucceeded == HackrxAnswered /\ router.w.result.status = 200

\* the events logged for question qi
EventsOf(qi) == {i \in LogPositions : router.log[i].qi = qi}

\* the processing of question qi produced the answer: the structured
\* snippet, or the answer of the generation call
AnswerOf(qi, answer) ==
    \E i \in EventsOf(qi) :
        /\ router.log[i].question = router.req.questions[qi]
        /\ \/ /\ router.log[i].op = "extract"
              /\ router.log[i].result # None
              /\ router.log[i].result[1].answer = answer
           \/ /\ router.log[i].op = "generate"
              /\ ~router.log[i].returned.raised
              /\ router.log[i].returned.value.answer = answer

\* the questions whose processing failed
FailedQuestions == {router.log[i].qi : i \in {j \in LogPositions : GenerationFailed(j)}}

\* C30: a /hackrx/run request that succeeds returns exactly one answer per
\* question, in the order of the questions; if the processing of a question
\* fails, the response is an error without partial answers and the
\* questions after the failing one are not processed.
C30_OneAnswerPerQuestionOrError ==
    HackrxAnswered =>
        /\ router.w.result.status = 200 =>
              /\ FailedQuestions = {}
              /\ Len(router.w.result.body.answers) = Len(router.req.questions)
              /\ \A qi \in 1..Len(router.req.questions) :
                    AnswerOf(qi, router.w.result.body.answers[qi])
        /\ FailedQuestions # {} =>
              /\ router.w.result.status = 500
              /\ DOMAIN router.w.result.body = {"error"}
              /\ \A k \in FailedQuestions : \A qi \in 1..Len(router.req.questions) :
                    qi > k => EventsOf(qi) = {}

\* the first of two questions was answered, the second failed: an error
\* without the first answer
C30_Witness ==
    /\ HackrxAnswered
    /\ Len(router.req.questions) = 2
    /\ FailedQuestions = {2}
    /\ \E answer \in {router.log[i].returned.value.answer :
                        i \in {j \in LogPositions : /\ router.log[j].op = "generate"
                                                    /\ ~router.log[j].returned.raised}} :
          AnswerOf(1, answer)
    /\ router.w.result.status = 500
    /\ DOMAIN router.w.result.body = {"error"}

\* two questions answered, one from the field map and one by generation
TwoAnswersInOrder ==
    /\ HackrxSucceeded
    /\ Len(router.req.questions) = 2
    /\ Len(router.w.result.body.answers) = 2
    /\ router.req.questions[1] # router.req.questions[2]
    /\ router.w.result.body.answers[1] # router.w.result.body.answers[2]
    /\ \E i \in EventsOf(1) : router.log[i].op = "generate"

\* the first question failed and the second was not processed
SecondNotProcessed ==
    /\ HackrxAnswered
    /\ Len(router.req.questions) = 2
    /\ FailedQuestions = {1}
    /\ EventsOf(2) = {}

====
